---- MODULE Spec2Model ----
(***************************************************************************)
(* Model of the stdio agent scripts of aixplain_examples:                  *)
(*   basic_agent.py          (the teacher agent, with conversation history)*)
(*   summarizer_agent.py     (JSON-framed summarizer loop)                 *)
(*   language_summarizer.py  (JSON-framed summarizer loop)                 *)
(*   quiz_generator_agent.py (one-shot quiz generator)                     *)
(*                                                                         *)
(* A Python str is a sequence of tokens.  A token is one character, or a   *)
(* fixed literal of the source that cannot overlap itself ("output=",      *)
(* "RESPONSE_COMPLETE", a template text), written as one TLA+ string.      *)
(***************************************************************************)
EXTENDS Integers, Sequences, FiniteSets, TLC

(***************************************************************************)
(* Bounds of the model.                                                    *)
(***************************************************************************)
\* lines the input stream can deliver before end-of-stream in one run
MaxLines == 2
\* lines of one run that can add a turn to the history
MaxTurns == 1
\* seconds the wall clock can advance during one run
MaxTicks == 1
\* the longest string form of a response handed to extract_content on its own
MaxRepr == 4
\* the longest text handed to the normalizer on its own
MaxText == 4
\* the longest array of questions in a reply of the model
MaxQuestions == 6
\* reads of the ended stream the server-mode loop is followed through
MaxEmpty == 2
\* the longest text of markers and img tags in a reply to summarize
MaxImageText == 4
\* the process starts again at most this often after it ended
MaxRestarts == 1

(***************************************************************************)
(* Characters and literals.                                                *)
(***************************************************************************)
LF == "LF"              \* the newline character
TAB == "TAB"            \* the tab character
BSL == "BSL"            \* the backslash character
BULLET == "BULLET"      \* U+2022, a character outside ASCII
QUOTE == "'"
COMMA == ","
SENTINEL == "RESPONSE_COMPLETE"
OUTPUT_EQ == "output="

\* request.get(key) of an absent key, and a JSON null
Missing == <<"%missing">>
Null == <<"%null">>
\* an attribute value that is not a str (None, a number, a list)
NonStr == <<"%nonstr">>

Min(a, b) == IF a <= b THEN a ELSE b

(***************************************************************************)
(* str primitives.                                                         *)
(***************************************************************************)
IsPrefixAt(s, p, i) ==
    /\ i + Len(p) - 1 <= Len(s)
    /\ \A k \in 1..Len(p) : s[i + k - 1] = p[k]

\* s[a:b] with 1-based inclusive bounds; empty when a > b
Slice(s, a, b) == IF a > b THEN <<>> ELSE SubSeq(s, a, b)

\* s.find(tok, from): the first index >= from holding tok, 0 when none
Find(s, tok, from) ==
    LET hits == {i \in from..Len(s) : s[i] = tok}
    IN  IF hits = {} THEN 0 ELSE CHOOSE i \in hits : \A j \in hits : i <= j

\* str.replace(old, new): left to right, non-overlapping
RECURSIVE Replace(_, _, _)
Replace(s, old, new) ==
    IF Len(s) = 0 THEN <<>>
    ELSE IF IsPrefixAt(s, old, 1)
         THEN new \o Replace(Slice(s, Len(old) + 1, Len(s)), old, new)
         ELSE <<Head(s)>> \o Replace(Tail(s), old, new)

\* str.strip("'")
RECURSIVE LStripQuote(_)
LStripQuote(s) ==
    IF Len(s) > 0 /\ Head(s) = QUOTE THEN LStripQuote(Tail(s)) ELSE s
RECURSIVE RStripQuote(_)
RStripQuote(s) ==
    IF Len(s) > 0 /\ s[Len(s)] = QUOTE
    THEN RStripQuote(Slice(s, 1, Len(s) - 1)) ELSE s
StripQuote(s) == RStripQuote(LStripQuote(s))
\* a clean-up that knows the newline pair only
Unescape_NewlineOnly(s) == Replace(s, <<BSL, "n">>, <<LF>>)
\* content.replace('\\n', '\n').replace('\\t', '\t')
Unescape(s) == Replace(Replace(s, <<BSL, "n">>, <<LF>>), <<BSL, "t">>, <<TAB>>)

\* characters the 'ascii'-like stdout encodings cannot represent
NonAscii == {BULLET}
\* print(text) raises UnicodeEncodeError under this stdout encoding
Unencodable(text, encoding) ==
    encoding # "utf-8" /\ \E i \in 1..Len(text) : text[i] \in NonAscii
\* str(e) of that UnicodeEncodeError: the character appears escaped
UnicodeEncodeErrorMsg == <<"'ascii' codec can't encode character ", BSL, "u2022">>

(***************************************************************************)
(* RawResponse: what agent.run returns.                                    *)
(*   hasOutput/output           hasattr(response, 'output'), its value     *)
(*   hasData/dataHasOutput/dataOutput    the nested data.output            *)
(*   repr                       str(response)                              *)
(***************************************************************************)
\* re.search(r"output='([^']+)'", s): <<start, end of group>> or <<0, 0>>
SearchQuoted(s) ==
    LET ok(i) == /\ s[i] = OUTPUT_EQ
                 /\ i + 1 <= Len(s) /\ s[i + 1] = QUOTE
                 /\ Find(s, QUOTE, i + 2) > i + 2
        hits == {i \in 1..Len(s) : ok(i)}
    IN  IF hits = {} THEN <<0, 0>>
        ELSE LET i == CHOOSE x \in hits : \A y \in hits : x <= y
             IN  <<i, Find(s, QUOTE, i + 2) - 1>>

\* re.search(r"output=([^,]+),", s): <<start, end of group>> or <<0, 0>>
SearchComma(s) ==
    LET ok(i) == s[i] = OUTPUT_EQ /\ Find(s, COMMA, i + 1) > i + 1
        hits == {i \in 1..Len(s) : ok(i)}
    IN  IF hits = {} THEN <<0, 0>>
        ELSE LET i == CHOOSE x \in hits : \A y \in hits : x <= y
             IN  <<i, Find(s, COMMA, i + 1) - 1>>

\* the regex and find tiers of extract_content over str(response)
ExtractFromRepr(response_str) ==
    LET q == SearchQuoted(response_str)
        c == SearchComma(response_str)
        start_idx == Find(response_str, OUTPUT_EQ, 1)
        end_idx == Find(response_str, COMMA, start_idx)
    IN  IF q[1] # 0 THEN Slice(response_str, q[1] + 2, q[2])
        ELSE IF c[1] # 0 THEN StripQuote(Slice(response_str, c[1] + 1, c[2]))
        ELSE IF start_idx # 0
             THEN IF end_idx # 0
                  THEN StripQuote(Slice(response_str, start_idx + 1, end_idx - 1))
                  ELSE StripQuote(Slice(response_str, start_idx + 1, Len(response_str)))
             ELSE response_str
\* an extraction that looks at the nested data.output before the attribute
extract_content_DataFirst(response) ==
    LET content ==
            IF response.hasData /\ response.dataHasOutput THEN response.dataOutput
            ELSE IF response.hasOutput THEN response.output
            ELSE ExtractFromRepr(response.repr)
    IN  IF content = NonStr THEN response.repr ELSE Unescape(content)
\* an extraction without the try/except: a value that is not a str gets out
extract_content_Unguarded(response) ==
    IF response.hasOutput THEN response.output
    ELSE IF response.hasData /\ response.dataHasOutput
         THEN response.dataOutput
         ELSE Unescape(ExtractFromRepr(response.repr))

\* extract_content of basic_agent.py and summarizer_agent.py
extract_content(response) ==
    LET response_str == response.repr
        content ==
            IF response.hasOutput THEN response.output
            ELSE IF response.hasData /\ response.dataHasOutput
                 THEN response.dataOutput
                 ELSE ExtractFromRepr(response_str)
    IN  IF content = NonStr
        THEN response_str        \* content.replace raises: except branch
        ELSE Unescape(content)

\* extract_content of language_summarizer.py: only the quoted pattern
extract_content_ls(response) ==
    LET response_str == response.repr
        q == SearchQuoted(response_str)
        content ==
            IF response.hasOutput THEN response.output
            ELSE IF response.hasData /\ response.dataHasOutput
                 THEN response.dataOutput
                 ELSE IF q[1] # 0 THEN Slice(response_str, q[1] + 2, q[2])
                      ELSE response_str
    IN  IF content = NonStr THEN response_str ELSE Unescape(content)

(***************************************************************************)
(* The text normalization of the teacher's text branch                     *)
(* (basic_agent.py lines 296-310), one operator per re.sub.                *)
(***************************************************************************)
PROCESSING == "Processing request"
DUMMY == "This is a dummy response"
STRONG_OPEN == "<strong>"
STRONG_CLOSE == "</strong>"
DOT == "."
STAR == "*"
\* what \s matches
Whitespace == {" ", TAB, LF}
BulletMarkers == {"-", STAR, BULLET}

NoneIn(s, a, b, tok) == \A k \in a..b : s[k] # tok

\* smallest j >= from where s[j..] starts with p, 0 when none
FindSeq(s, p, from) ==
    LET hits == {j \in from..Len(s) : IsPrefixAt(s, p, j)}
    IN  IF hits = {} THEN 0 ELSE CHOOSE j \in hits : \A k \in hits : j <= k

\* end of the longest run of members of set starting at i (i - 1 when none)
RECURSIVE RunEnd(_, _, _)
RunEnd(s, i, set) ==
    IF i <= Len(s) /\ s[i] \in set THEN RunEnd(s, i + 1, set) ELSE i - 1

\* r'Processing request.*?\.\.\.' at i: index of the last matched character
ProcessingEnd(s, i) ==
    LET j == FindSeq(s, <<DOT, DOT, DOT>>, i + 1)
    IN  IF s[i] = PROCESSING /\ j # 0 /\ NoneIn(s, i + 1, j - 1, LF)
        THEN j + 2 ELSE 0
RECURSIVE StripProcessing(_, _)
StripProcessing(s, i) ==
    IF i > Len(s) THEN <<>>
    ELSE IF ProcessingEnd(s, i) # 0
         THEN StripProcessing(s, ProcessingEnd(s, i) + 1)
         ELSE <<s[i]>> \o StripProcessing(s, i + 1)

\* r'This is a dummy response.*?\.' at i
DummyEnd(s, i) ==
    LET j == Find(s, DOT, i + 1)
    IN  IF s[i] = DUMMY /\ j # 0 /\ NoneIn(s, i + 1, j - 1, LF)
        THEN j ELSE 0
RECURSIVE StripDummy(_, _)
StripDummy(s, i) ==
    IF i > Len(s) THEN <<>>
    ELSE IF DummyEnd(s, i) # 0
         THEN StripDummy(s, DummyEnd(s, i) + 1)
         ELSE <<s[i]>> \o StripDummy(s, i + 1)

\* r'^[-*BULLET]\s+' with re.MULTILINE at i
BulletEnd(s, i) ==
    IF /\ (i = 1 \/ s[i - 1] = LF)
       /\ s[i] \in BulletMarkers
       /\ i + 1 <= Len(s) /\ s[i + 1] \in Whitespace
    THEN RunEnd(s, i + 1, Whitespace) ELSE 0
RECURSIVE UnifyBullets(_, _)
UnifyBullets(s, i) ==
    IF i > Len(s) THEN <<>>
    ELSE IF BulletEnd(s, i) # 0
         THEN <<BULLET, " ">> \o UnifyBullets(s, BulletEnd(s, i) + 1)
         ELSE <<s[i]>> \o UnifyBullets(s, i + 1)

\* r'\*\*(.*?)\*\*' at i: index of the closing pair, 0 when no match
BoldClose(s, i) ==
    LET j == FindSeq(s, <<STAR, STAR>>, i + 2)
    IN  IF /\ IsPrefixAt(s, <<STAR, STAR>>, i)
           /\ j # 0 /\ NoneIn(s, i + 2, j - 1, LF)
        THEN j ELSE 0
RECURSIVE RewriteBold(_, _)
RewriteBold(s, i) ==
    IF i > Len(s) THEN <<>>
    ELSE IF BoldClose(s, i) # 0
         THEN <<STRONG_OPEN>> \o Slice(s, i + 2, BoldClose(s, i) - 1)
              \o <<STRONG_CLOSE>> \o RewriteBold(s, BoldClose(s, i) + 2)
         ELSE <<s[i]>> \o RewriteBold(s, i + 1)

\* r'\n{3,}' -> '\n\n'
RECURSIVE CollapseNewlines(_, _)
CollapseNewlines(s, i) ==
    IF i > Len(s) THEN <<>>
    ELSE IF RunEnd(s, i, {LF}) >= i + 2
         THEN <<LF, LF>> \o CollapseNewlines(s, RunEnd(s, i, {LF}) + 1)
         ELSE <<s[i]>> \o CollapseNewlines(s, i + 1)
\* the rule sequence with the bullet rule moved before artifact stripping
normalize_BulletsFirst(content) ==
    LET c1 == Unescape(content)
        c2 == UnifyBullets(c1, 1)
        c3 == StripProcessing(c2, 1)
        c4 == StripDummy(c3, 1)
        c5 == RewriteBold(c4, 1)
    IN  CollapseNewlines(c5, 1)
\* the rule sequence of the text branch, in the order of the source
normalize(content) ==
    LET c1 == Unescape(content)
        c2 == StripProcessing(c1, 1)
        c3 == StripDummy(c2, 1)
        c4 == UnifyBullets(c3, 1)
        c5 == RewriteBold(c4, 1)
    IN  CollapseNewlines(c5, 1)

(***************************************************************************)
(* Branch selection of the teacher (basic_agent.py lines 244-245).         *)
(***************************************************************************)
ImageKeywords == {"image", "picture", "photo", "generate", "create", "draw"}
\* str.lower() on the tokens that have an upper-case form
Lower(tok) == IF tok = "Draw" THEN "draw" ELSE tok
is_image_request(prompt) ==
    \E i \in 1..Len(prompt) : Lower(prompt[i]) \in ImageKeywords

(***************************************************************************)
(* The history directory (basic_agent.py lines 72-97).                     *)
(* A file name is a str; a file holds a JSON value (json = TRUE, data the  *)
(* list of turns) or text that json.load rejects (json = FALSE).           *)
(***************************************************************************)
\* the branch the main loop takes for a request (lines 243-294): the request
\* is read for prompt, requestId, language, isVoiceInput and audioData only
\* (lines 198-202), and the keyword scan alone decides
BranchOfMainLoop(request) ==
    IF is_image_request(request.prompt) THEN "image" ELSE "text"
\* the branch the server-mode loop takes (lines 405-453): the word image in
\* the prompt is looked for before the feature is
BranchOfServerLoop(request, aixplain_available, gemini_model, stable_diffusion_model) ==
    LET feature == IF request.feature = Missing THEN <<"text">> ELSE request.feature
        has_image == \E i \in 1..Len(request.prompt) : Lower(request.prompt[i]) = "image"
    IN  IF aixplain_available /\ gemini_model
        THEN IF has_image /\ stable_diffusion_model THEN "image"
             ELSE IF feature = <<"summary">> THEN "summary"
             ELSE IF feature = <<"quiz">> THEN "quiz"
             ELSE "text"
        ELSE "mock"
\* the second at which a run starts
ClockStart == 9

Digits == <<"0", "1", "2", "3", "4", "5", "6", "7", "8", "9">>
\* code point of the first character of a token
Code(tok) ==
    IF \E d \in 1..10 : Digits[d] = tok
    THEN 47 + (CHOOSE d \in 1..10 : Digits[d] = tok)
    ELSE IF tok \in {".json", ".txt"} THEN 46
    ELSE IF tok = "conversation_" THEN 99
    ELSE 110                                   \* "notes"

\* a < b for Python str
RECURSIVE LexLess(_, _)
LexLess(a, b) ==
    IF Len(b) = 0 THEN FALSE
    ELSE IF Len(a) = 0 THEN TRUE
    ELSE IF Code(Head(a)) # Code(Head(b)) THEN Code(Head(a)) < Code(Head(b))
    ELSE LexLess(Tail(a), Tail(b))

\* datetime.now().strftime(...): zero-padded fields of fixed width; the
\* fields above the last two digits are constant during the model's runs
strftime(now) == <<Digits[((now \div 10) % 10) + 1], Digits[(now % 10) + 1]>>

\* os.path.join(history_dir, f"conversation_{timestamp}.json")
HistoryFileName(now) == <<"conversation_">> \o strftime(now) \o <<".json">>

SURR == "SURR"          \* a lone surrogate: no encoding represents it
\* json.dumps of a str with the default ensure_ascii
DQUOTE == "\""
EscapeToken(tok) ==
    IF tok = BULLET THEN <<BSL, "u2022">>
    ELSE IF tok = SURR THEN <<BSL, "udc80">>
    ELSE IF tok = LF THEN <<BSL, "n">>
    ELSE IF tok = TAB THEN <<BSL, "t">>
    ELSE IF tok = BSL THEN <<BSL, BSL>>
    ELSE IF tok = DQUOTE THEN <<BSL, DQUOTE>>
    ELSE <<tok>>
RECURSIVE EscapeAll(_)
EscapeAll(str) ==
    IF Len(str) = 0 THEN <<>> ELSE EscapeToken(Head(str)) \o EscapeAll(Tail(str))
JsonString(str) == <<DQUOTE>> \o EscapeAll(str) \o <<DQUOTE>>
\* json.load of a string literal: the escapes read back
DecodeEscape(tok) ==
    IF tok = "u2022" THEN BULLET
    ELSE IF tok = "udc80" THEN SURR
    ELSE IF tok = "n" THEN LF
    ELSE IF tok = "t" THEN TAB
    ELSE tok
\* a reading that leaves the escapes as they are written
UnescapeAll_Verbatim(s) == s
RECURSIVE UnescapeAll(_)
UnescapeAll(s) ==
    IF s = <<>> THEN <<>>
    ELSE IF Head(s) = BSL /\ Len(s) >= 2
         THEN <<DecodeEscape(s[2])>> \o UnescapeAll(SubSeq(s, 3, Len(s)))
         ELSE <<Head(s)>> \o UnescapeAll(Tail(s))
JsonStringValue(text) == UnescapeAll(SubSeq(text, 2, Len(text) - 1))
\* json.dump(history, f, indent=2): each turn an object whose values are
\* string literals (the timestamp is kept as the clock reading it names)
json_dump(history) ==
    [i \in 1..Len(history) |->
        [k \in DOMAIN history[i] |->
            IF k = "timestamp" THEN history[i][k] ELSE JsonString(history[i][k])]]
\* json.load(f) of a text json.dump wrote
json_load(text) ==
    [i \in 1..Len(text) |->
        [k \in DOMAIN text[i] |->
            IF k = "timestamp" THEN text[i][k] ELSE JsonStringValue(text[i][k])]]

CorruptFile == [json |-> FALSE, data |-> <<>>]
JsonFile(history) == [json |-> TRUE, data |-> history]

RECURSIVE SetToSeq(_)
SetToSeq(S) ==
    IF S = {} THEN <<>>
    ELSE LET x == CHOOSE y \in S : TRUE IN <<x>> \o SetToSeq(S \ {x})

\* a listing that does not filter on the extension
history_files_Unfiltered(fs) == SortSeq(SetToSeq(DOMAIN fs), LexLess)
\* sorted([f for f in os.listdir(history_dir) if f.endswith('.json')])
history_files(fs) ==
    SortSeq(SetToSeq({f \in DOMAIN fs : f[Len(f)] = ".json"}), LexLess)

\* a load that falls back on the file before the one it cannot parse
load_conversation_history_Fallback(fs) ==
    LET hf == history_files(fs)
        good == SelectSeq(hf, LAMBDA f : fs[f].json)
    IN  IF good = <<>> THEN <<>> ELSE fs[good[Len(good)]].data

load_conversation_history(fs) ==
    LET hf == history_files(fs)
        latest_file == hf[Len(hf)]
    IN  IF hf = <<>> THEN <<>>
        ELSE IF fs[latest_file].json THEN fs[latest_file].data
        ELSE <<>>                    \* json.load raises: logged, []

\* a save that writes only the newest turn
save_conversation_history_LastTurn(fs, history, now, outcome) ==
    LET filename == HistoryFileName(now)
        delta == IF history = <<>> THEN <<>> ELSE <<history[Len(history)]>>
    IN  IF outcome = "ok" THEN (filename :> JsonFile(delta)) @@ fs
        ELSE IF outcome = "dump_fails" THEN (filename :> CorruptFile) @@ fs
        ELSE fs
\* what a call of save_conversation_history can do to the file system
SaveOutcomes == {"ok", "open_fails", "dump_fails"}
save_conversation_history(fs, history, now, outcome) ==
    LET filename == HistoryFileName(now)
    IN  IF outcome = "ok"       \* the file holds what json.load reads back
        THEN (filename :> JsonFile(json_load(json_dump(history)))) @@ fs
        ELSE IF outcome = "dump_fails" THEN (filename :> CorruptFile) @@ fs
        ELSE fs
\* the record of one call, kept in the log of saves
SaveEntry(history, now, outcome, site) ==
    [name |-> HistoryFileName(now), data |-> history,
     outcome |-> outcome, site |-> site]

(***************************************************************************)
(* Input lines and the Agent Adapter.                                      *)
(***************************************************************************)
PromptPlain == <<"What is 2+2?">>
PromptImage == <<"Draw", " ", "a cat">>
Audio1 == <<"UklGRg==">>

\* one line of the input stream: text json.loads rejects, a JSON value
\* that is not an object, or an object with the keys the scripts read
Line(j, p, a, v, r, l) ==
    [json |-> j, prompt |-> p, audioData |-> a, isVoiceInput |-> v,
     requestId |-> r, language |-> l]
NoLine == Line("none", Missing, Missing, FALSE, Missing, Missing)
\* the plain prompt comes with a requestId and a language, the others
\* leave both to their defaults
\* audioData and isVoiceInput: no audio, a voice flag with empty audio,
\* a recording, a recording without the voice flag
AudioInputs == {<<Missing, FALSE>>, <<<<>>, TRUE>>, <<Audio1, TRUE>>,
                <<Audio1, FALSE>>}
ObjectLines ==
    {Line("object", p, av[1], av[2],
          IF p = PromptPlain THEN <<"r1">> ELSE Missing,
          IF p = PromptPlain THEN <<"Hindi">> ELSE Missing) :
        p \in {Missing, Null, <<>>, PromptPlain, PromptImage},
        av \in AudioInputs}
Lines ==
    {Line("invalid", Missing, Missing, FALSE, Missing, Missing),
     Line("nonobject", Missing, Missing, FALSE, Missing, Missing)}
    \cup ObjectLines
\* a line with a byte the codec of sys.stdin rejects under errors='strict';
\* under 'surrogateescape' it is text json.loads rejects, an "invalid" line
Undecodable == Line("undecodable", Missing, Missing, FALSE, Missing, Missing)

\* request.get(key, default)
Get(v, default) == IF v = Missing THEN default ELSE v
\* a test for None in place of the truth value
Truthy_NotNone(x) == x # Null
\* bool(x) of a str or None
Truthy(x) == x # <<>> /\ x # Null

\* str(e) of the exceptions the request loops meet
JSONDecodeErrorMsg == <<"Expecting value: line 1 column 1 (char 0)">>
NoGetMsg == <<"'list' object has no attribute 'get'">>
NotSubscriptableMsg == <<"'NoneType' object is not subscriptable">>
UnicodeDecodeErrorMsg == <<"'utf-8' codec can't decode byte 0xff in position 0">>

RawResponse(ho, o, hd, dho, do, r) ==
    [hasOutput |-> ho, output |-> o, hasData |-> hd, dataHasOutput |-> dho,
     dataOutput |-> do, repr |-> r]
\* an object whose only access to the text is its string form
RespQuoted ==
    RawResponse(FALSE, <<>>, FALSE, FALSE, <<>>,
                <<"ModelResponse(", OUTPUT_EQ, QUOTE, "4", QUOTE, COMMA, " status=ok)">>)
Replies == {RespQuoted}
\* str(e) of what agent.run raises; the message has a non-ASCII character
ErrMsgs == {<<"quota exceeded ", BULLET>>}

\* what one call of agent.run does: returns a response or raises
Returns(resp) == [raises |-> FALSE, msg |-> <<>>, resp |-> resp]
Raises(msg) == [raises |-> TRUE, msg |-> msg, resp |-> RespQuoted]
Outcomes == {Returns(r) : r \in Replies} \cup {Raises(m) : m \in ErrMsgs}

\* the record of one call of agent.run: what was asked, and what it did
Call(tool, query, o) ==
    [tool |-> tool, query |-> query, raises |-> o.raises, msg |-> o.msg]

(***************************************************************************)
(* One request of the teacher loop (basic_agent.py lines 195-344).         *)
(* o1 is the outcome of the transcription call and o2 of the generation    *)
(* call, when the request makes them; so is the outcome of the checkpoint. *)
(***************************************************************************)
VOICE_MARKER == "[Transcribed from voice] "
SORRY == "I'm sorry, I encountered an error processing your request: "
EMPTY_INPUT == "Error: Empty prompt and no audio data received"
VOICE_ERROR == "Error processing voice input: "
OUTER_ERROR == "An error occurred: Error processing request: "

\* s[:100]
Prefix100(s) == Slice(s, 1, Min(Len(s), 100))
\* the two prompt templates
ImagePrompt(prompt) ==
    <<"Generate an image based on this description: ">> \o prompt
    \o <<" When returning the image, please format your response as follows">>
TextPrompt(language, prompt) ==
    <<"Please respond to the following prompt with well-formatted content. ">>
    \o language \o <<" Here is the prompt: ">> \o prompt

\* content.encode('utf-8', errors='replace').decode('utf-8', errors='replace')
LossyReencode(s) == [i \in 1..Len(s) |-> IF s[i] = SURR THEN "?" ELSE s[i]]
\* print(text) to a stdout of the given encoding raises UnicodeEncodeError
PrintFails(text, encoding) ==
    \/ Unencodable(text, encoding)
    \/ \E i \in 1..Len(text) : text[i] = SURR

\* a turn that keeps the request id of no request
ConversationTurn_Anonymous(user, assistant, now, request_id, language) ==
    [user |-> user, assistant |-> assistant, timestamp |-> now,
     request_id |-> <<"unknown">>, language |-> language]
ConversationTurn(user, assistant, now, request_id, language) ==
    [user |-> user, assistant |-> assistant, timestamp |-> now,
     request_id |-> request_id, language |-> language]

\* the effect of one request: the history, the writes to stdout, the calls
\* of agent.run, the calls of save_conversation_history, the directory,
\* and whether an exception left the loop
Effect(h, out, cl, sv, fs, crashed) ==
    [history |-> h, out |-> out, calls |-> cl, saved |-> sv, files |-> fs,
     crashed |-> crashed]

\* an empty request skipped without an answer
EmptyInputResponse_Silent == <<>>
\* lines 207-210: the answer to a request with no prompt and no audio
EmptyInputResponse == <<<<EMPTY_INPUT, SENTINEL>>>>

\* an append made on both sides of the checkpoint
AppendTurn_Twice(history, turn) == Append(Append(history, turn), turn)
\* lines 317-323: conversation_history.append({...})
AppendTurn(history, turn) == Append(history, turn)

\* the test made on the length before the append
IsCheckpoint_BeforeAppend(history) == (Len(history) - 1) % 3 = 0
\* line 326: len(conversation_history) % 3 == 0
IsCheckpoint(history) == Len(history) % 3 = 0
\* an outer except that logs the failure and writes nothing
OuterExcept_Silent(msg, h, out, cl, sv, fs, encoding) == Effect(h, out, cl, sv, fs, FALSE)
\* the outer except of the loop (lines 340-344)
OuterExcept(msg, h, out, cl, sv, fs, encoding) ==
    LET text == <<OUTER_ERROR>> \o msg \o <<SENTINEL>>
    IN  IF PrintFails(text, encoding)
        THEN Effect(h, out, cl, sv, fs, TRUE)
        ELSE Effect(h, Append(out, text), cl, sv, fs, FALSE)

\* lines 316-338: append, checkpoint, write
AppendAndWrite(prompt, content, request_id, language, out, cl, history, fs, now, encoding, so) ==
    LET h1 == AppendTurn(history,
                         ConversationTurn(prompt, content, now, request_id, language))
        checkpoint == IsCheckpoint(h1)
        fs1 == IF checkpoint
               THEN save_conversation_history(fs, h1, now, so) ELSE fs
        sv == IF checkpoint
              THEN <<SaveEntry(h1, now, so, "checkpoint")>> ELSE <<>>
        text == content \o <<SENTINEL>>
        retry == LossyReencode(content) \o <<SENTINEL>>
    IN  IF ~PrintFails(text, encoding)
        THEN Effect(h1, Append(out, text), cl, sv, fs1, FALSE)
        ELSE IF ~PrintFails(retry, encoding)
             THEN Effect(h1, Append(out, retry), cl, sv, fs1, FALSE)
             ELSE OuterExcept(UnicodeEncodeErrorMsg, h1, out, cl, sv, fs1, encoding)

\* lines 243-314 for the prompt the voice step left
Generate(prompt, request_id, language, cl, o2, history, fs, now, encoding, so) ==
    LET progress == <<"Generating image for: ">> \o Prefix100(prompt) \o <<"...">>
        image == is_image_request(prompt)
        query == IF image THEN ImagePrompt(prompt) ELSE TextPrompt(language, prompt)
        cl2 == Append(cl, Call("generation", query, o2))
        extracted == extract_content(o2.resp)
        content == IF o2.raises THEN <<SORRY>> \o o2.msg
                   ELSE IF image THEN extracted
                   ELSE normalize(extracted)
    IN  IF image /\ PrintFails(progress, encoding)
        THEN AppendAndWrite(prompt, <<SORRY>> \o UnicodeEncodeErrorMsg,
                            request_id, language, <<>>, cl,
                            history, fs, now, encoding, so)
        ELSE AppendAndWrite(prompt, content, request_id, language,
                            IF image THEN <<progress>> ELSE <<>>, cl2,
                            history, fs, now, encoding, so)

\* lines 231-234 without the note about the transcription
VoicePrompt_Bare(transcribed_text, prompt) ==
    IF transcribed_text # <<>> THEN transcribed_text ELSE prompt
\* lines 231-234: the transcribed text, or the prompt when it is empty, with
\* the note about the transcription before it
VoicePrompt(transcribed_text, prompt) ==
    <<VOICE_MARKER>>
    \o (IF transcribed_text # <<>> THEN transcribed_text ELSE prompt)

TeacherRequest(ln, o1, o2, so, history, fs, now, encoding) ==
    LET prompt == Get(ln.prompt, <<>>)
        request_id == Get(ln.requestId, <<"unknown">>)
        language == Get(ln.language, <<"English">>)
        is_voice_input == ln.isVoiceInput
        audio_data == Get(ln.audioData, Null)
        cl1 == <<Call("speech-to-text", audio_data, o1)>>
        transcribed_text == extract_content(o1.resp)
        voice_prompt == VoicePrompt(transcribed_text, prompt)
        voice_error == <<VOICE_ERROR>> \o o1.msg \o <<SENTINEL>>
    IN  IF ln.json = "invalid"
        THEN OuterExcept(JSONDecodeErrorMsg, history, <<>>, <<>>, <<>>, fs, encoding)
        ELSE IF ln.json = "nonobject"
        THEN OuterExcept(NoGetMsg, history, <<>>, <<>>, <<>>, fs, encoding)
        ELSE IF prompt = Null              \* prompt[:100] at line 204
        THEN OuterExcept(NotSubscriptableMsg, history, <<>>, <<>>, <<>>, fs, encoding)
        ELSE IF ~Truthy(prompt) /\ ~Truthy(audio_data)
        THEN Effect(history, EmptyInputResponse, <<>>, <<>>, fs, FALSE)
        ELSE IF ~(is_voice_input /\ Truthy(audio_data))
        THEN Generate(prompt, request_id, language, <<>>, o2,
                      history, fs, now, encoding, so)
        ELSE IF ~o1.raises
        THEN Generate(voice_prompt, request_id, language, cl1, o2,
                      history, fs, now, encoding, so)
        ELSE IF Truthy(prompt)
        THEN Generate(prompt, request_id, language, cl1, o2,
                      history, fs, now, encoding, so)
        ELSE IF PrintFails(voice_error, encoding)     \* caught at line 312
        THEN AppendAndWrite(prompt, <<SORRY>> \o UnicodeEncodeErrorMsg,
                            request_id, language, <<>>, cl1,
                            history, fs, now, encoding, so)
        ELSE Effect(history, <<voice_error>>, cl1, <<>>, fs, FALSE)

(***************************************************************************)
(* json.dumps(obj) with the default ensure_ascii: the text of an object    *)
(* whose values are strings, booleans or already serialized values.        *)
(***************************************************************************)
JsonBool(b) == IF b THEN <<"true">> ELSE <<"false">>
\* pairs: a sequence of <<key, serialized value>>
RECURSIVE JsonMembers(_)
JsonMembers(pairs) ==
    IF Len(pairs) = 0 THEN <<>>
    ELSE JsonString(<<Head(pairs)[1]>>) \o <<": ">> \o Head(pairs)[2]
         \o (IF Len(pairs) > 1 THEN <<", ">> ELSE <<>>)
         \o JsonMembers(Tail(pairs))
JsonObject(pairs) == <<"{">> \o JsonMembers(pairs) \o <<"}">>

\* a writer that leaves the terminator out
FramedJson_Bare(pairs) == JsonObject(pairs)
\* print(json.dumps(obj) + "\nRESPONSE_COMPLETE")
FramedJson(pairs) == JsonObject(pairs) \o <<LF, SENTINEL>>

(***************************************************************************)
(* The image stripping of summarizer_agent.py (lines 216-221), one         *)
(* operator per re.sub.                                                    *)
(***************************************************************************)
IMAGE_URL == "IMAGE_URL:"
IMG_OPEN == "<img"
\* '<a href="https://aixplain-modelserving-data': it holds a URL scheme
ANCHOR_OPEN == <<"<a href=\"", "https://", "aixplain-modelserving-data">>
\* "</a>": its last character is one the img pattern looks for
ANCHOR_CLOSE == <<"</a", ">">>
UrlSchemes == {"http://", "https://"}
ImageExtensions == {"jpg", "jpeg", "png", "gif", "webp"}
\* tokens with a character outside the class of the URL pattern
NotUrlTokens == {" ", LF, TAB, DQUOTE, "#", "~", BULLET, SURR, "<a href=\"",
                 PROCESSING, DUMMY}

\* r'\[IMAGE_URL:.*?\]' at i: index of the last matched token, 0 when none
MarkerEnd(s, i) ==
    LET j == Find(s, "]", i + 2)
    IN  IF /\ IsPrefixAt(s, <<"[", IMAGE_URL>>, i)
           /\ j # 0 /\ NoneIn(s, i + 2, j - 1, LF)
        THEN j ELSE 0
\* r'<img[^>]*>' at i
ImgEnd(s, i) ==
    IF s[i] = IMG_OPEN THEN Find(s, ">", i + 1) ELSE 0
\* r'<a href="https://aixplain-modelserving-data.*?</a>' at i
AnchorEnd(s, i) ==
    LET j == FindSeq(s, ANCHOR_CLOSE, i + 3)
    IN  IF IsPrefixAt(s, ANCHOR_OPEN, i) /\ j # 0 /\ NoneIn(s, i + 3, j - 1, LF)
        THEN j + 1 ELSE 0
\* r'!\[.*?\]\(.*?\)' at i
MarkdownImageEnd(s, i) ==
    LET j == FindSeq(s, <<"]", "(">>, i + 2)
        k == Find(s, ")", j + 2)
    IN  IF /\ IsPrefixAt(s, <<"!", "[">>, i)
           /\ j # 0 /\ NoneIn(s, i + 2, j - 1, LF)
           /\ k # 0 /\ NoneIn(s, j + 2, k - 1, LF)
        THEN k ELSE 0
\* r'http[s]?://(?:...)+\.(?:jpg|jpeg|png|gif|webp)' at i
ImageUrlEnd(s, i) ==
    LET last == RunEnd(s, i + 1, {s[k] : k \in 1..Len(s)} \ NotUrlTokens)
        ends == {k \in (i + 3)..last :
                    s[k - 1] = DOT /\ s[k] \in ImageExtensions}
    IN  IF s[i] \in UrlSchemes /\ ends # {}
        THEN CHOOSE k \in ends : \A m \in ends : m <= k
        ELSE 0

\* re.sub(pattern, '', s) for the pattern whose match at i ends at End(s, i)
RECURSIVE Strip(_, _, _)
Strip(s, i, rule) ==
    LET e == CASE rule = "marker" -> MarkerEnd(s, i)
               [] rule = "img" -> ImgEnd(s, i)
               [] rule = "anchor" -> AnchorEnd(s, i)
               [] rule = "markdown" -> MarkdownImageEnd(s, i)
               [] rule = "url" -> ImageUrlEnd(s, i)
    IN  IF i > Len(s) THEN <<>>
        ELSE IF e # 0 THEN Strip(s, e + 1, rule)
        ELSE <<s[i]>> \o Strip(s, i + 1, rule)

strip_images(response_content) ==
    LET c1 == Strip(response_content, 1, "marker")
        c2 == Strip(c1, 1, "img")
        c3 == Strip(c2, 1, "anchor")
        c4 == Strip(c3, 1, "markdown")
    IN  Strip(c4, 1, "url")

(***************************************************************************)
(* One request of summarizer_agent.py (lines 163-267) and of               *)
(* language_summarizer.py (lines 123-144).  o is the outcome of the call   *)
(* of run, when the request makes it.                                      *)
(***************************************************************************)
SummaryPrompt(summary_level, language, prompt) ==
    <<"SYSTEM INSTRUCTION: You are a specialized educational summarizer. ">>
    \o summary_level \o <<" ">> \o language
    \o <<" CONTENT TO SUMMARIZE: ">> \o prompt

SummarizerRequest(ln, o) ==
    LET prompt == Get(ln.prompt, <<>>)
        language == Get(ln.language, <<"English">>)
        summary_level == <<"simple">>
        cl == <<Call("generation", SummaryPrompt(summary_level, language, prompt), o)>>
        response_content == strip_images(extract_content(o.resp))
        Error(error, response) ==
            FramedJson(<<<<"error", JsonString(error)>>,
                         <<"response", JsonString(<<response>>)>>>>)
    IN  IF ln.json = "invalid"
        THEN [out |-> <<Error(<<"Invalid JSON format">>,
                 "The request format is invalid. Please send a valid JSON object.")>>,
              calls |-> <<>>]
        ELSE IF ln.json = "nonobject" \/ prompt = Null
        THEN [out |-> <<Error(<<"Unexpected error: ">>
                              \o (IF ln.json = "nonobject" THEN NoGetMsg
                                  ELSE NotSubscriptableMsg),
                 "An unexpected error occurred while processing your request.")>>,
              calls |-> <<>>]
        ELSE IF ~Truthy(prompt)
        THEN [out |-> <<Error(<<"Empty content received">>,
                              "Please provide content to summarize.")>>,
              calls |-> <<>>]
        ELSE IF o.raises
        THEN [out |-> <<Error(<<"Error processing request: ">> \o o.msg,
                              "Failed to generate summary due to an error.")>>,
              calls |-> cl]
        ELSE [out |-> <<FramedJson(<<<<"response", JsonString(response_content)>>,
                                     <<"language", JsonString(language)>>,
                                     <<"summaryLevel", JsonString(summary_level)>>>>)>>,
              calls |-> cl]

\* lang_map.get(language, "English") of summarize_text
LangName(language) ==
    CASE language = <<"hi">> -> <<"Hindi">>
      [] language = <<"bn">> -> <<"Bengali">>
      [] language = <<"ta">> -> <<"Tamil">>
      [] language = <<"te">> -> <<"Telugu">>
      [] language = <<"mr">> -> <<"Marathi">>
      [] language = <<"gu">> -> <<"Gujarati">>
      [] OTHER -> <<"English">>

\* a summarize_text that reports a failure without saying which
summarize_text_Generic(text, language, summary_level, o) ==
    IF o.raises
    THEN <<<<"success", JsonBool(FALSE)>>,
           <<"error", JsonString(<<"Summarization failed">>)>>>>
    ELSE <<<<"success", JsonBool(TRUE)>>,
           <<"summary", JsonString(extract_content_ls(o.resp))>>>>
\* summarize_text(text, language, summary_level): the result dict as pairs
summarize_text(text, language, summary_level, o) ==
    IF o.raises
    THEN <<<<"success", JsonBool(FALSE)>>, <<"error", JsonString(o.msg)>>>>
    ELSE <<<<"success", JsonBool(TRUE)>>,
           <<"summary", JsonString(extract_content_ls(o.resp))>>>>

LanguageSummarizerRequest(ln, o) ==
    LET prompt == Get(ln.prompt, Null)
        language == Get(ln.language, <<"en">>)
        summary_level == <<"detailed">>
        cl == <<Call("generation",
                     SummaryPrompt(summary_level, LangName(language), prompt), o)>>
        Failure(error) ==
            FramedJson(<<<<"success", JsonBool(FALSE)>>,
                         <<"error", JsonString(error)>>>>)
    IN  IF ln.json = "invalid"
        THEN [out |-> <<Failure(<<"Invalid JSON format">>)>>, calls |-> <<>>]
        ELSE IF ln.json = "nonobject"
        THEN [out |-> <<Failure(NoGetMsg)>>, calls |-> <<>>]
        ELSE IF ~Truthy(prompt)
        THEN [out |-> <<Failure(<<"Empty content received">>)>>, calls |-> <<>>]
        ELSE [out |-> <<FramedJson(summarize_text(prompt, language,
                                                  summary_level, o))>>,
              calls |-> cl]

(***************************************************************************)
(* quiz_generator_agent.py: generate_quiz (lines 72-175) and the main      *)
(* block (lines 184-237).                                                  *)
(* In the text of a reply a JSON object is one token; ObjectOf gives the   *)
(* dict json.loads makes of it.                                            *)
(***************************************************************************)
\* the opening fence of a json code block and the closing fence
FENCE_JSON == "FENCE_JSON"
FENCE == "FENCE"
AGENT_STOPPED == "Agent stopped"
ObjectTokens == {"{question, correctAnswerIndex: 1}", "{question, correct_answer: 2}",
                 "{question, correctAnswerIndex: 2}", "{question}",
                 "{question, correctAnswerIndex: 1, correct_answer: 2}",
                 "{question, explanation, sample_answer}", "{question, explanation}",
                 "{question, explanation, sample_answer, follow_up}"}
ObjectOf(tok) ==
    CASE tok = "{question, correctAnswerIndex: 1}" ->
            [question |-> "q", correctAnswerIndex |-> 1]
      [] tok = "{question, correct_answer: 2}" ->
            [question |-> "q", correct_answer |-> 2]
      [] tok = "{question, correctAnswerIndex: 2}" ->
            [question |-> "q", correctAnswerIndex |-> 2]
      [] tok = "{question}" -> [question |-> "q"]
      [] tok = "{question, correctAnswerIndex: 1, correct_answer: 2}" ->
            [question |-> "q", correctAnswerIndex |-> 1, correct_answer |-> 2]
      [] tok = "{question, explanation, sample_answer}" ->
            [question |-> "q", explanation |-> "e", sample_answer |-> "s"]
      [] tok = "{question, explanation}" ->
            [question |-> "q", explanation |-> "e"]
      [] tok = "{question, explanation, sample_answer, follow_up}" ->
            [question |-> "q", explanation |-> "e", sample_answer |-> "s",
             follow_up |-> "f"]
      [] tok = "\"a\"" -> [py_str |-> "a"]
      [] tok = "7" -> [py_int |-> 7]
\* JSON values that are not objects: a string and a number
ScalarTokens == {"\"a\"", "7"}
ItemTokens == ObjectTokens \cup ScalarTokens
\* json.dumps of a dict of the quiz
TokenOf(obj) == CHOOSE tok \in ItemTokens : ObjectOf(tok) = obj

\* str.strip()
RECURSIVE DropLeadingTrailing(_)
DropLeadingTrailing(text) ==
    IF Len(text) > 0 /\ Head(text) \in Whitespace
    THEN DropLeadingTrailing(Tail(text))
    ELSE IF Len(text) > 0 /\ text[Len(text)] \in Whitespace
    THEN DropLeadingTrailing(Slice(text, 1, Len(text) - 1))
    ELSE text

RECURSIVE DropWhitespace(_)
DropWhitespace(text) ==
    IF Len(text) = 0 THEN <<>>
    ELSE IF Head(text) \in Whitespace THEN DropWhitespace(Tail(text))
    ELSE <<Head(text)>> \o DropWhitespace(Tail(text))

\* json.loads(text): [ok, list, items]; ok = FALSE stands for JSONDecodeError
JsonLoads(text) ==
    LET t == DropWhitespace(text)
        n == Len(t)
        array ==
            /\ n >= 2 /\ t[1] = "[" /\ t[n] = "]"
            /\ n = 2 \/ n % 2 = 1
            /\ \A i \in 2..(n - 1) :
                  IF i % 2 = 0 THEN t[i] \in ItemTokens ELSE t[i] = COMMA
    IN  IF array
        THEN [ok |-> TRUE, list |-> TRUE,
              items |-> [k \in 1..((n - 1) \div 2) |-> ObjectOf(t[2 * k])]]
        ELSE IF n = 1 /\ t[1] \in ItemTokens
        THEN [ok |-> TRUE, list |-> FALSE, items |-> <<ObjectOf(t[1])>>]
        ELSE [ok |-> FALSE, list |-> FALSE, items |-> <<>>]

\* a rename that also gives an item without an answer the index 0
RenameKey_Defaulting(q) ==
    [k \in (DOMAIN q \ {"correct_answer"}) \cup {"correctAnswerIndex"} |->
        IF k # "correctAnswerIndex" THEN q[k]
        ELSE IF "correct_answer" \in DOMAIN q THEN q["correct_answer"]
        ELSE IF "correctAnswerIndex" \in DOMAIN q THEN q[k] ELSE 0]
\* lines 161-162: q["correctAnswerIndex"] = q.pop("correct_answer")
RenameKey(q) ==
    IF "correct_answer" \in DOMAIN q
    THEN [k \in (DOMAIN q \ {"correct_answer"}) \cup {"correctAnswerIndex"} |->
             IF k = "correctAnswerIndex" THEN q["correct_answer"] ELSE q[k]]
    ELSE q

\* re.search(r'$$ [\s\S]* $$', text): "$" asserts the end of the text, and
\* the space after it has no character to match
SearchDollarPattern(text) == FALSE

\* the reply of agent.run in generate_quiz:
\*   hasDataOutput/text     result.data.output
\*   hasSteps/steps         result.data.intermediate_steps, the tool steps
\*                          in order, each [tool, output]
QuizReply(hdo, text, hs, steps) ==
    [hasDataOutput |-> hdo, text |-> text, hasSteps |-> hs, steps |-> steps]

\* lines 130-137 for one tool step: <<found, text between the fences>>
FencedOutput(tool_step) ==
    LET output_text == tool_step.output
        open == Find(output_text, FENCE_JSON, 1)
        hits == {i \in 1..Len(output_text) : output_text[i] \in {FENCE, FENCE_JSON}}
        close == CHOOSE i \in hits : \A j \in hits : j <= i
    IN  IF tool_step.tool = "text-generation" /\ open # 0 /\ close > open
        THEN <<TRUE, Slice(output_text, open + 1, close - 1)>>
        ELSE <<FALSE, <<>>>>

QuizFailure(error) == [success |-> FALSE, error |-> error, questions |-> <<>>,
                       list |-> TRUE]
QuizSuccess(parsed, items) ==
    [success |-> TRUE, error |-> <<>>, questions |-> items, list |-> parsed.list]

\* lines 146-167 for the generated text
ParseQuiz(generated_text) ==
    LET parsed == JsonLoads(generated_text)
        IsInt(q) == "py_int" \in DOMAIN q
    IN  IF ~parsed.ok /\ ~SearchDollarPattern(generated_text)
        THEN \* the regex fallback finds nothing: ValueError
             QuizFailure(<<"Failed to extract valid JSON from the response">>)
        ELSE IF parsed.list
        THEN \* "correct_answer" in q: a key test on a dict, a substring test
             \* on a str, TypeError on a number
             IF \E k \in 1..Len(parsed.items) : IsInt(parsed.items[k])
             THEN QuizFailure(<<"argument of type 'int' is not iterable">>)
             ELSE QuizSuccess(parsed, [k \in 1..Len(parsed.items) |->
                                         RenameKey(parsed.items[k])])
        ELSE IF IsInt(parsed.items[1])
        THEN QuizFailure(<<"'int' object is not iterable">>)
        ELSE \* a dict or a str: the loop runs over its keys or its
             \* characters, which are str
             IF "correct_answer" \in DOMAIN parsed.items[1]
             THEN QuizFailure(<<"'str' object has no attribute 'pop'">>)
             ELSE QuizSuccess(parsed, parsed.items)

\* generate_quiz for the outcome o of agent.run; o.resp is a QuizReply
generate_quiz(o) ==
    LET result == o.resp
        generated_text == result.text
        invalid == \/ \E i \in 1..Len(generated_text) : generated_text[i] = AGENT_STOPPED
                   \/ DropWhitespace(generated_text) = <<>>
        found == {i \in 1..Len(result.steps) : FencedOutput(result.steps[i])[1]}
        first == CHOOSE i \in found : \A j \in found : i <= j
    IN  IF o.raises THEN QuizFailure(o.msg)
        ELSE IF ~result.hasDataOutput
        THEN QuizFailure(<<"Agent response does not contain accessible 'output' attribute">>)
        ELSE IF ~invalid THEN ParseQuiz(generated_text)
        ELSE IF ~result.hasSteps
        THEN QuizFailure(<<"No intermediate steps available to extract quiz data">>)
        ELSE IF found = {}
        THEN QuizFailure(<<"No valid quiz output found in intermediate steps">>)
        ELSE ParseQuiz(DropLeadingTrailing(FencedOutput(result.steps[first])[2]))

\* the replies of the model in the quiz generator
QuizArray == <<"[", "{question, correct_answer: 2}", COMMA, " ",
               "{question, correctAnswerIndex: 1}", "]">>
QuizReplies ==
    {QuizReply(TRUE, QuizArray, FALSE, <<>>),
     QuizReply(TRUE, <<"Here is your quiz:", LF, FENCE_JSON, LF>> \o QuizArray
                     \o <<LF, FENCE>>, FALSE, <<>>),
     QuizReply(TRUE, <<AGENT_STOPPED, " due to iteration limit">>, TRUE,
               <<[tool |-> "text-generation",
                  output |-> <<FENCE_JSON, LF>> \o QuizArray \o <<LF, FENCE>>]>>),
     QuizReply(FALSE, <<>>, FALSE, <<>>)}
QuizOutcomes ==
    {[raises |-> FALSE, msg |-> <<>>, resp |-> r] : r \in QuizReplies}
    \cup {[raises |-> TRUE, msg |-> m, resp |-> QuizReply(FALSE, <<>>, FALSE, <<>>)] :
             m \in ErrMsgs}

\* json.dumps(result) of the main block
RECURSIVE DumpItems(_)
DumpItems(items) ==
    IF Len(items) = 0 THEN <<>>
    ELSE <<TokenOf(Head(items))>>
         \o (IF Len(items) > 1 THEN <<", ">> ELSE <<>>) \o DumpItems(Tail(items))
DumpQuizResult(result) ==
    JsonObject(
        <<<<"success", JsonBool(result.success)>>>>
        \o (IF result.success THEN <<>>
            ELSE <<<<"error", JsonString(result.error)>>>>)
        \o <<<<"questions",
               IF result.list THEN <<"[">> \o DumpItems(result.questions) \o <<"]">>
               ELSE DumpItems(result.questions)>>>>)

\* lines 184-237: the one request of the quiz generator
QuizMain(ln, o) ==
    LET Failure(error, message) ==
            JsonObject(<<<<"success", JsonBool(FALSE)>>,
                         <<"error", JsonString(error)>>,
                         <<"message", JsonString(<<message>>)>>>>)
    IN  IF ln.json = "undecodable"             \* readline raises: line 230
        THEN [out |-> <<Failure(<<"Error reading input: ">> \o UnicodeDecodeErrorMsg,
                                "Failed to read input data.")>>,
              calls |-> <<>>]
        ELSE IF ln.json = "invalid"
        THEN [out |-> <<Failure(<<"Invalid JSON format">>,
                 "The request format is invalid. Please send a valid JSON object.")>>,
              calls |-> <<>>]
        ELSE IF ln.json = "nonobject"
        THEN [out |-> <<Failure(<<"Unexpected error: ">> \o NoGetMsg,
                 "An unexpected error occurred while processing your request.")>>,
              calls |-> <<>>]
        ELSE [out |-> <<DumpQuizResult(generate_quiz(o))>>,
              calls |-> <<Call("generation", <<"Generate questions about ">>
                                             \o Get(ln.prompt, <<>>),
                               [raises |-> o.raises, msg |-> o.msg])>>]

(***************************************************************************)
(* State.                                                                  *)
(***************************************************************************)
VARIABLES
    script,                 \* which of the scripts this process runs
    pc,                     \* "start", "read", "handle", "server", "done", "crashed";
                            \* "apply", "returned" for a function on its own
    line,                   \* the line being handled
    nRead,                  \* reads of stdin handed to the request handling
    nTurns,                 \* lines read so far that can add a turn
    stdout,                 \* the writes to stdout since the last read of stdin
    nSentinel,              \* sentinel-terminated writes of the whole run
    calls,                  \* the calls of agent.run since the last read of stdin
    conversation_history,   \* the list of turns of basic_agent.py
    files,                  \* the history directory: name -> content
    saves,                  \* the calls of save_conversation_history
    clock,                  \* datetime.now(), in seconds
    encoding,               \* the encoding of sys.stdout
    op,                     \* the function applied on its own, "none" in a script
    arg,                    \* its argument
    result,                 \* what it returned
    nEmpty                  \* reads of the server-mode loop that returned ''

vars == <<script, pc, line, nRead, nTurns, stdout, nSentinel, calls,
          conversation_history, files, saves, clock, encoding, op, arg, result,
          nEmpty>>

Scripts == {"teacher", "summarizer", "language_summarizer", "quiz"}

\* a turn and histories that earlier runs left in the directory
OldTurn == ConversationTurn(<<"hello">>, <<"hi">>, 0, <<"r0">>, <<"English">>)
OldHistory(n) == [i \in 1..n |-> OldTurn]
EmptyDir == [f \in {} |-> CorruptFile]
\* the directories a run can find: snapshots of earlier runs, one of them
\* possibly cut short by a failed dump, and a file that is not a snapshot
Notes == <<"notes", ".txt">> :> CorruptFile
Older == HistoryFileName(ClockStart - 1) :> JsonFile(OldHistory(5))
Newer == HistoryFileName(ClockStart) :> JsonFile(OldHistory(2))
NewerCut == HistoryFileName(ClockStart) :> CorruptFile
InitialDirs ==
    {EmptyDir, Notes, Older @@ Notes, Newer, Older @@ Newer @@ Notes,
     Older @@ NewerCut}

EndsWithSentinel(text) == Len(text) > 0 /\ text[Len(text)] = SENTINEL
CountSentinel(out) == Cardinality({i \in 1..Len(out) : EndsWithSentinel(out[i])})

Init ==
    /\ script \in Scripts
    /\ pc = IF script = "quiz" THEN "read" ELSE "start"
    /\ line = NoLine
    /\ nRead = 0
    /\ nTurns = 0
    /\ stdout = <<>>
    /\ nSentinel = 0
    /\ calls = <<>>
    /\ conversation_history = <<>>
    /\ files \in IF script = "teacher" THEN InitialDirs ELSE {EmptyDir}
    /\ saves = <<>>
    /\ clock = ClockStart
    /\ encoding \in IF script = "teacher" THEN {"utf-8", "ascii"} ELSE {"utf-8"}
    /\ op = "none" /\ arg = <<>> /\ result = <<>>
    /\ nEmpty = 0

\* the line each loop script prints before it reads stdin
Banner(s) ==
    CASE s = "teacher" -> <<"AIXplain agent server is running. Waiting for input...">>
      [] s = "summarizer" ->
            <<"AIXplain summarizer agent is running. Waiting for input...">>
      [] s = "language_summarizer" -> <<"Language summarizer agent is running">>

\* basic_agent.py line 187: conversation_history = load_conversation_history(),
\* then the banner; the two summarizers only print their banner
Startup ==
    /\ pc = "start"
    /\ conversation_history' = IF script = "teacher"
                               THEN load_conversation_history(files)
                               ELSE conversation_history
    /\ stdout' = <<Banner(script)>>
    /\ pc' = "read"
    /\ UNCHANGED <<script, line, nRead, nTurns, nSentinel, calls,
                   files, saves, clock, encoding,
                   op, arg, result, nEmpty>>

\* the lines that pass the checks of lines 197-210 of basic_agent.py
CanAddTurn(ln) ==
    /\ ln.json = "object"
    /\ ln.prompt # Null
    /\ Truthy(Get(ln.prompt, <<>>)) \/ Truthy(Get(ln.audioData, Null))

\* the clock advances while the process waits for input
Elapse ==
    \E d \in {0, 1} : /\ clock + d <= ClockStart + MaxTicks
                      /\ clock' = clock + d

\* for line in sys.stdin: the next line arrives
ReadLine ==
    /\ pc = "read"
    /\ nRead < MaxLines
    /\ \E ln \in Lines :
          /\ script = "teacher" /\ CanAddTurn(ln) => nTurns < MaxTurns
          /\ line' = ln
          /\ nTurns' = IF script = "teacher" /\ CanAddTurn(ln)
                       THEN nTurns + 1 ELSE nTurns
    /\ IF script = "teacher" THEN Elapse ELSE clock' = clock
    /\ nRead' = nRead + 1
    /\ stdout' = <<>>
    /\ calls' = <<>>
    /\ pc' = "handle"
    /\ UNCHANGED <<script, nSentinel, conversation_history, files, saves,
                   encoding,
                   op, arg, result, nEmpty>>

\* the next line cannot be decoded and sys.stdin is strict: in the loop
\* scripts the iteration itself raises UnicodeDecodeError, outside the try
\* of the loop body, and the process ends with a traceback; in the quiz
\* generator readline raises inside the try of the main block, which
\* answers the failed read as it answers a line
ReadFails ==
    /\ pc = "read"
    /\ nRead < MaxLines
    /\ line' = Undecodable
    /\ nRead' = IF script = "quiz" THEN nRead + 1 ELSE nRead
    /\ stdout' = <<>>
    /\ calls' = <<>>
    /\ pc' = IF script = "quiz" THEN "handle" ELSE "crashed"
    /\ UNCHANGED <<script, nTurns, nSentinel, conversation_history, files,
                   saves, clock, encoding,
                   op, arg, result, nEmpty>>

\* the outcome drawn for a call the request does not make
NoOutcome == Returns(RespQuoted)
\* line 215: if is_voice_input and audio_data
MakesTranscriptionCall(ln) ==
    ln.json = "object" /\ ln.isVoiceInput /\ Truthy(Get(ln.audioData, Null))

\* the body of the teacher loop for the line read
TeacherHandle ==
    /\ pc = "handle"
    /\ script = "teacher"
    /\ \E o1 \in IF MakesTranscriptionCall(line) THEN Outcomes ELSE {NoOutcome},
          o2 \in IF line.json = "object" THEN Outcomes ELSE {NoOutcome},
          so \in IF (Len(conversation_history) + 1) % 3 = 0
                 THEN SaveOutcomes ELSE {"ok"} :
          \E e \in {TeacherRequest(line, o1, o2, so, conversation_history,
                                   files, clock, encoding)} :
              /\ conversation_history' = e.history
              /\ stdout' = e.out
              /\ nSentinel' = nSentinel + CountSentinel(e.out)
              /\ calls' = e.calls
              /\ files' = e.files
              /\ saves' = saves \o e.saved
              /\ pc' = IF e.crashed THEN "crashed" ELSE "read"
    /\ UNCHANGED <<script, line, nRead, nTurns, clock, encoding,
                   op, arg, result, nEmpty>>

\* lines 352-398: what the server-mode section prints before its loop, with
\* the aixplain library imported or not
ServerBanner(aixplain_available) ==
    <<<<"Starting AIXplain agent in server mode...">>,
      IF aixplain_available THEN <<"AIXplain library imported successfully">>
      ELSE <<"Error: AIXplain library not found. Using mock responses.">>,
      <<"AIXplain agent server is running">>>>

\* end of stream in a process started without --server-mode: the loop
\* ends, line 347 saves the history, line 352 finds the flag unset
TeacherEndOfStream ==
    /\ pc = "read"
    /\ script = "teacher"
    /\ Elapse
    /\ \E so \in SaveOutcomes :
          /\ files' = save_conversation_history(files, conversation_history,
                                                clock', so)
          /\ saves' = Append(saves, SaveEntry(conversation_history, clock',
                                              so, "shutdown"))
    /\ line' = NoLine
    /\ stdout' = <<>>
    /\ calls' = <<>>
    /\ pc' = "done"
    /\ UNCHANGED <<script, nRead, nTurns, nSentinel, conversation_history,
                   encoding,
                   op, arg, result, nEmpty>>

\* the same end of stream in a process started with --server-mode: after
\* the save of line 347 the section of line 352 prints its banner and
\* enters its own loop
TeacherEndOfStreamServerMode ==
    /\ pc = "read"
    /\ script = "teacher"
    /\ Elapse
    /\ \E so \in SaveOutcomes :
          /\ files' = save_conversation_history(files, conversation_history,
                                                clock', so)
          /\ saves' = Append(saves, SaveEntry(conversation_history, clock',
                                              so, "shutdown"))
    /\ line' = NoLine
    /\ calls' = <<>>
    /\ \E aixplain_available \in BOOLEAN : stdout' = ServerBanner(aixplain_available)
    /\ pc' = "server"
    /\ UNCHANGED <<script, nRead, nTurns, nSentinel, conversation_history,
                   encoding,
                   op, arg, result, nEmpty>>

\* lines 400-405 once the stream has ended: readline() returns '', which
\* strip() leaves empty, and "continue" starts the next round
ServerReadsNothing ==
    /\ pc = "server"
    /\ script = "teacher"
    /\ nEmpty < MaxEmpty
    /\ nEmpty' = nEmpty + 1
    /\ stdout' = <<>>
    /\ UNCHANGED <<script, pc, line, nRead, nTurns, nSentinel, calls,
                   conversation_history, files, saves, clock, encoding,
                   op, arg, result>>

\* the body of the loop of summarizer_agent.py for the line read
SummarizerHandle ==
    /\ pc = "handle"
    /\ script = "summarizer"
    /\ \E o \in Outcomes :
          \E e \in {SummarizerRequest(line, o)} :
              /\ stdout' = e.out
              /\ nSentinel' = nSentinel + CountSentinel(e.out)
              /\ calls' = e.calls
    /\ pc' = "read"
    /\ UNCHANGED <<script, line, nRead, nTurns, conversation_history, files,
                   saves, clock, encoding,
                   op, arg, result, nEmpty>>

\* the body of the loop of language_summarizer.py for the line read
LanguageSummarizerHandle ==
    /\ pc = "handle"
    /\ script = "language_summarizer"
    /\ \E o \in Outcomes :
          \E e \in {LanguageSummarizerRequest(line, o)} :
              /\ stdout' = e.out
              /\ nSentinel' = nSentinel + CountSentinel(e.out)
              /\ calls' = e.calls
    /\ pc' = "read"
    /\ UNCHANGED <<script, line, nRead, nTurns, conversation_history, files,
                   saves, clock, encoding,
                   op, arg, result, nEmpty>>

\* end of stream in the two summarizer loops: the script ends
SummarizerEndOfStream ==
    /\ pc = "read"
    /\ script \in {"summarizer", "language_summarizer"}
    /\ line' = NoLine
    /\ stdout' = <<>>
    /\ calls' = <<>>
    /\ pc' = "done"
    /\ UNCHANGED <<script, nRead, nTurns, nSentinel, conversation_history,
                   files, saves, clock, encoding,
                   op, arg, result, nEmpty>>

\* quiz_generator_agent.py answers the line it read and ends
QuizHandle ==
    /\ pc = "handle"
    /\ script = "quiz"
    /\ \E o \in QuizOutcomes :
          \E e \in {QuizMain(line, o)} :
              /\ stdout' = e.out
              /\ nSentinel' = nSentinel + CountSentinel(e.out)
              /\ calls' = e.calls
    /\ pc' = "done"
    /\ UNCHANGED <<script, line, nRead, nTurns, conversation_history, files,
                   saves, clock, encoding,
                   op, arg, result, nEmpty>>

Next ==
    \/ Startup
    \/ ReadLine
    \/ ReadFails
    \/ TeacherHandle
    \/ TeacherEndOfStream
    \/ SummarizerHandle
    \/ LanguageSummarizerHandle
    \/ SummarizerEndOfStream
    \/ QuizHandle

Spec == Init /\ [][Next]_vars

(***************************************************************************)
(* The teacher started again after it ended: a new process, with nothing   *)
(* in memory, over the directory the earlier process left.                 *)
(***************************************************************************)
Shutdowns == Cardinality({i \in 1..Len(saves) : saves[i].site = "shutdown"})
\* the process has ended after line 347; the next one begins at line 72.
\* The lines read and the turns added are counted over all the processes, so
\* that the input followed stays MaxLines lines long.
Restart ==
    /\ pc = "done"
    /\ script = "teacher"
    /\ Shutdowns <= MaxRestarts
    /\ Elapse
    /\ conversation_history' = <<>>
    /\ line' = NoLine
    /\ stdout' = <<>>
    /\ calls' = <<>>
    /\ pc' = "start"
    /\ UNCHANGED <<script, nRead, nTurns, nSentinel, files, saves, encoding,
                   op, arg, result, nEmpty>>

\* the lines the restarted teacher is followed on: two that add a turn and
\* one that json.loads rejects
RestartLines ==
    {Line("object", PromptPlain, Missing, FALSE, <<"r1">>, <<"Hindi">>),
     Line("object", PromptImage, Audio1, TRUE, Missing, Missing),
     Line("invalid", Missing, Missing, FALSE, Missing, Missing)}
\* for line in sys.stdin: the next of those lines arrives
ReadLineRestart ==
    /\ pc = "read"
    /\ nRead < MaxLines
    /\ \E ln \in RestartLines :
          /\ CanAddTurn(ln) => nTurns < MaxTurns
          /\ line' = ln
          /\ nTurns' = IF CanAddTurn(ln) THEN nTurns + 1 ELSE nTurns
    /\ Elapse
    /\ nRead' = nRead + 1
    /\ stdout' = <<>>
    /\ calls' = <<>>
    /\ pc' = "handle"
    /\ UNCHANGED <<script, nSentinel, conversation_history, files, saves,
                   encoding,
                   op, arg, result, nEmpty>>

InitRestart ==
    /\ Init
    /\ script = "teacher"
    /\ files \in {EmptyDir, Older @@ Newer @@ Notes}
    /\ encoding = "utf-8"

NextRestart ==
    \/ Startup
    \/ ReadLineRestart
    \/ ReadFails
    \/ TeacherHandle
    \/ TeacherEndOfStream
    \/ Restart

SpecRestart == InitRestart /\ [][NextRestart]_vars

(***************************************************************************)
(* The teacher with or without --server-mode: line 352 is the first to     *)
(* read the flag, so the runs differ only from the end of the stream on.   *)
(* The history directory starts empty and stdout encodes UTF-8.            *)
(***************************************************************************)
InitServerMode ==
    /\ Init
    /\ script = "teacher"
    /\ files = EmptyDir
    /\ encoding = "utf-8"

NextServerMode ==
    \/ Startup
    \/ ReadLine
    \/ ReadFails
    \/ TeacherHandle
    \/ TeacherEndOfStream
    \/ TeacherEndOfStreamServerMode
    \/ ServerReadsNothing

SpecServerMode == InitServerMode /\ [][NextServerMode]_vars

(***************************************************************************)
(* interview_agent.py: the questions asked of the model, and the request   *)
(* handled at module level.                                                *)
(***************************************************************************)
RequiredQuestions == 5
QuestionKeys == {"question", "explanation", "sample_answer"}

\* the one item returned in place of the questions
ErrorItem(question, explanation) ==
    [question |-> question, explanation |-> explanation, sample_answer |-> <<>>]
Returned(synthetic, value) ==
    [raised |-> FALSE, msg |-> <<>>, synthetic |-> synthetic, value |-> value]
RaisedOut(msg) == [raised |-> TRUE, msg |-> msg, synthetic |-> FALSE, value |-> <<>>]

\* lines 93-96: a list of 5 dicts that each have the three keys
IsQuestionList(parsed) ==
    /\ parsed.list
    /\ Len(parsed.items) = RequiredQuestions
    /\ \A k \in 1..Len(parsed.items) :
          /\ "py_str" \notin DOMAIN parsed.items[k]
          /\ "py_int" \notin DOMAIN parsed.items[k]
          /\ QuestionKeys \subseteq DOMAIN parsed.items[k]

\* a check of the length alone
IsQuestionList_LengthOnly(parsed) ==
    parsed.list /\ Len(parsed.items) = RequiredQuestions

\* the log line before the try block slices job_details
TYPE_ERROR_SLICE == "'int' object is not subscriptable"

\* get_interview_questions with the outcome o of model.generate_content and
\* of reading response.text
get_interview_questions(job_details, company_info, o) ==
    IF job_details = NonStr THEN RaisedOut(<<TYPE_ERROR_SLICE>>)
    ELSE IF o.raises
    THEN Returned(TRUE, <<ErrorItem(<<"Error: Failed to generate questions">>, o.msg)>>)
    ELSE LET response_text == DropLeadingTrailing(o.text)
             questions_data == JsonLoads(response_text)
         IN  IF ~questions_data.ok
             THEN Returned(TRUE, <<ErrorItem(<<"Error: Failed to parse response as JSON">>,
                                             response_text)>>)
             ELSE IF IsQuestionList(questions_data)
             THEN Returned(FALSE, questions_data.items)
             ELSE Returned(TRUE, <<ErrorItem(<<"Error: Unexpected response format">>,
                                             response_text)>>)

\* datetime.datetime.now().isoformat(): the reading of the clock as text
isoformat(now) == <<"T">> \o strftime(now)

\* json.dumps of the list get_interview_questions returned
DumpQuestions(r) ==
    IF r.synthetic
    THEN <<"[">> \o JsonObject(<<<<"question", JsonString(r.value[1].question)>>,
                                 <<"explanation", JsonString(r.value[1].explanation)>>,
                                 <<"sample_answer", JsonString(r.value[1].sample_answer)>>>>)
         \o <<"]">>
    ELSE <<"[">> \o DumpItems(r.value) \o <<"]">>
\* lines 113-117 and 130-134
Envelope(r, now) ==
    JsonObject(<<<<"questions", DumpQuestions(r)>>,
                 <<"timestamp", JsonString(isoformat(now))>>>>)
ErrorObject(msg) == JsonObject(<<<<"error", JsonString(msg)>>>>)

\* "not x" of a value read from the arguments or from the JSON input
Falsy(x) == x \in {<<>>, Missing, Null}
REQUIRED == "Job details and company info are required"
INVALID_JSON_INPUT == "Invalid JSON input"
NO_GET == "'list' object has no attribute 'get'"

\* a handling of the stdin input that wraps every failure in the envelope
interview_request_Enveloped(req, now) ==
    LET cli == ~Falsy(req.args_job_details) /\ ~Falsy(req.args_company_info)
        r == IF cli
             THEN get_interview_questions(req.args_job_details, req.args_company_info, req.o)
             ELSE IF req.stdin.kind = "invalid"
             THEN Returned(TRUE, <<ErrorItem(<<INVALID_JSON_INPUT>>, <<>>)>>)
             ELSE IF req.stdin.kind = "array"
             THEN Returned(TRUE, <<ErrorItem(<<NO_GET>>, <<>>)>>)
             ELSE IF Falsy(req.stdin.job_details) \/ Falsy(req.stdin.company_info)
             THEN Returned(TRUE, <<ErrorItem(<<REQUIRED>>, <<>>)>>)
             ELSE get_interview_questions(req.stdin.job_details, req.stdin.company_info, req.o)
    IN  IF r.raised THEN Envelope(Returned(TRUE, <<ErrorItem(r.msg, <<>>)>>), now)
        ELSE Envelope(r, now)
\* lines 110-138: what the script prints for a request that is not
\* interactive, given on the command line or, failing that, on stdin
interview_request(req, now) ==
    IF ~Falsy(req.args_job_details) /\ ~Falsy(req.args_company_info)
    THEN Envelope(get_interview_questions(req.args_job_details, req.args_company_info,
                                          req.o), now)
    ELSE IF req.stdin.kind = "invalid" THEN ErrorObject(<<INVALID_JSON_INPUT>>)
    ELSE IF req.stdin.kind = "array" THEN ErrorObject(<<NO_GET>>)
    ELSE IF Falsy(req.stdin.job_details) \/ Falsy(req.stdin.company_info)
    THEN ErrorObject(<<REQUIRED>>)
    ELSE LET r == get_interview_questions(req.stdin.job_details, req.stdin.company_info,
                                          req.o)
         IN  IF r.raised THEN ErrorObject(r.msg) ELSE Envelope(r, now)

(***************************************************************************)
(* The functions of the scripts applied on their own: a run draws a        *)
(* function and an argument, and its one step applies the function.        *)
(***************************************************************************)
NotApplied == <<"%pending">>

\* all the sequences over S of length at most n
RECURSIVE StringsUpTo(_, _)
StringsUpTo(S, n) ==
    IF n = 0 THEN {<<>>}
    ELSE LET shorter == StringsUpTo(S, n - 1)
         IN  shorter \cup {Append(t, c) : t \in {u \in shorter : Len(u) = n - 1}, c \in S}

\* str(response): text with the patterns extract_content looks for
ReprAlphabet == {OUTPUT_EQ, QUOTE, COMMA, "4", BSL, "n"}
Reprs == StringsUpTo(ReprAlphabet, MaxRepr)
\* the value of an output attribute: a str or something else
AttrValues == {NonStr, <<>>, <<"4">>, <<"4", BSL, "n">>, <<BSL, "t", BSL, "n">>}
\* what agent.run can return: an output attribute, a nested data.output,
\* a data attribute without output, nothing but the string form, or both
\* attributes at once
ResponsesOver(reprs) ==
    [hasOutput : {TRUE}, output : AttrValues, hasData : {FALSE},
     dataHasOutput : {FALSE}, dataOutput : {<<>>}, repr : reprs]
    \cup [hasOutput : {FALSE}, output : {<<>>}, hasData : {TRUE},
          dataHasOutput : {TRUE}, dataOutput : AttrValues, repr : reprs]
    \cup [hasOutput : {FALSE}, output : {<<>>}, hasData : BOOLEAN,
          dataHasOutput : {FALSE}, dataOutput : {<<>>}, repr : reprs]
    \cup [hasOutput : {TRUE}, output : AttrValues, hasData : {TRUE},
          dataHasOutput : {TRUE}, dataOutput : AttrValues,
          repr : {<<>>, <<OUTPUT_EQ, QUOTE, "4", QUOTE>>}]

\* repr() of the characters of a str, as an object's string form shows them
PyEscape(c) ==
    Replace(Replace(Replace(c, <<BSL>>, <<BSL, BSL>>), <<LF>>, <<BSL, "n">>),
            <<TAB>>, <<BSL, "t">>)
\* a dict: it has no attributes, only keys; str(d) writes the key quoted
\* and followed by a colon, so the text output= does not occur in it
DictRepr(v) ==
    <<"{", QUOTE, "output", QUOTE, ": ">>
    \o (IF v = NonStr THEN <<"None">> ELSE <<QUOTE>> \o PyEscape(v) \o <<QUOTE>>)
    \o <<"}">>
DictResponse(v) ==
    [hasOutput |-> FALSE, output |-> <<>>, hasData |-> FALSE,
     dataHasOutput |-> FALSE, dataOutput |-> <<>>, repr |-> DictRepr(v),
     isDict |-> TRUE, value |-> v]
isinstance_dict(response) == "isDict" \in DOMAIN response

\* the second extract_content of basic_agent.py, defined after the loop
extract_content_2(response) ==
    IF isinstance_dict(response) THEN response.value ELSE response.repr

\* the four shapes in which a response carries the text c
AsOutput(c) == RawResponse(TRUE, c, FALSE, FALSE, <<>>, <<"<Response object>">>)
AsDataOutput(c) == RawResponse(FALSE, <<>>, TRUE, TRUE, c, <<"<Response object>">>)
AsMapping(c) == DictResponse(c)
AsStringForm(c) ==
    RawResponse(FALSE, <<>>, FALSE, FALSE, <<>>,
                <<"ModelResponse(", OUTPUT_EQ, QUOTE>> \o PyEscape(c)
                \o <<QUOTE, COMMA, " status=ok)">>)
ShapesOf(c) == {AsOutput(c), AsDataOutput(c), AsMapping(c), AsStringForm(c)}
Contents == {<<"4">>, <<"4", LF, "2">>}
ShapeResponses == UNION {ShapesOf(c) : c \in Contents}

\* the text of a reply in the quiz generator: a JSON value, bare or in a
\* fenced block, with or without prose and bracketed text around it
ObjectArrays ==
    {QuizArray,
     <<"[", "{question, correctAnswerIndex: 1, correct_answer: 2}", "]">>,
     <<"[", "{question}", COMMA, "{question, correct_answer: 2}", "]">>,
     <<"[", "]">>}
\* JSON that is not an array of objects: an object, an object with the old
\* key, an array of strings, an array of numbers, a string, a number
OtherValues ==
    {<<"{question, correctAnswerIndex: 1}">>, <<"{question, correct_answer: 2}">>,
     <<"[", "\"a\"", "]">>, <<"[", "7", "]">>, <<"\"a\"">>, <<"7">>}
\* a reply that holds no JSON at all
NoJson == <<"I cannot write a quiz about that.">>
QuizValues == ObjectArrays \cup OtherValues \cup {NoJson}
Fenced(text) == <<FENCE_JSON, LF>> \o text \o <<LF, FENCE>>
Prefixes == {<<>>, <<"Here is your quiz:", LF>>}
Suffixes == {<<>>, <<LF, "Good luck!">>, <<LF, "[", "see the notes", "]">>}
QuizTexts ==
    {p \o w \o x : p \in Prefixes, x \in Suffixes,
                    w \in QuizValues \cup {Fenced(v) : v \in QuizValues}}
\* a reply whose final output is the text, and a reply that stopped and holds
\* the text in a tool step
QuizCalls ==
    QuizOutcomes
    \cup {[raises |-> FALSE, msg |-> <<>>, resp |-> QuizReply(TRUE, t, FALSE, <<>>)] :
              t \in QuizTexts}
    \cup {[raises |-> FALSE, msg |-> <<>>,
           resp |-> QuizReply(TRUE, <<AGENT_STOPPED>>, TRUE,
                              <<[tool |-> tl, output |-> t]>>)] :
              t \in QuizTexts, tl \in {"text-generation", "search"}}

\* the characters the rules of the normalizer tell apart, and a plain one
TextAlphabet == {PROCESSING, DUMMY, DOT, STAR, "-", " ", LF, BSL, "n", "x"}
Texts == StringsUpTo(TextAlphabet, MaxText)

\* the replies of the model in the interview generator: arrays of up to
\* MaxQuestions items, bare, fenced or between blank lines, and values that
\* are not arrays
FULL == "{question, explanation, sample_answer}"
QuestionItems == {FULL, "{question, explanation}", "\"a\""}
RECURSIVE Separated(_)
Separated(items) ==
    IF Len(items) = 0 THEN <<>>
    ELSE <<Head(items)>> \o (IF Len(items) > 1 THEN <<COMMA, " ">> ELSE <<>>)
         \o Separated(Tail(items))
ArrayText(items) == <<"[">> \o Separated(items) \o <<"]">>
FiveWithMore ==
    ArrayText([k \in 1..RequiredQuestions |->
                  "{question, explanation, sample_answer, follow_up}"])
QuestionArrays ==
    {ArrayText(a) : a \in StringsUpTo(QuestionItems, MaxQuestions)} \cup {FiveWithMore}
InterviewTexts ==
    QuestionArrays
    \cup {Fenced(t) : t \in QuestionArrays}
    \cup {<<LF>> \o t \o <<" ", LF>> : t \in QuestionArrays}
    \cup {<<FULL>>, <<"7">>, <<"I cannot help with that.">>, <<>>}
InterviewOutcomes ==
    {[raises |-> FALSE, msg |-> <<>>, text |-> t] : t \in InterviewTexts}
    \cup {[raises |-> TRUE, msg |-> <<"quota exceeded">>, text |-> <<>>]}
JobDetails == {<<"Backend engineer">>, NonStr}
InterviewCalls ==
    [job_details : JobDetails, company_info : {<<"Acme">>}, o : InterviewOutcomes]

\* the requests of the interview generator: the two arguments of the command
\* line (Null when not given) and the JSON text on stdin
Five == ArrayText([k \in 1..RequiredQuestions |-> FULL])
RequestOutcomes ==
    {[raises |-> FALSE, msg |-> <<>>, text |-> t] :
        t \in {Five, Fenced(Five), <<"I cannot help with that, see [", DQUOTE, "{">>}}
    \cup {[raises |-> TRUE, msg |-> <<"quota exceeded">>, text |-> <<>>]}
StdinInputs ==
    {[kind |-> "invalid", job_details |-> Missing, company_info |-> Missing],
     [kind |-> "array", job_details |-> Missing, company_info |-> Missing]}
    \cup [kind : {"object"},
          job_details : {Missing, Null, <<>>, <<"Backend engineer">>, NonStr},
          company_info : {Missing, <<>>, <<"Acme">>}]
InterviewRequests ==
    [args_job_details : {Null, <<>>, <<"Backend engineer">>},
     args_company_info : {Null, <<"Acme">>},
     stdin : StdinInputs, o : RequestOutcomes]

\* the requests of the teacher handled on their own: text and image
\* prompts without audio, with and without a requestId and a language
TeacherLines ==
    {Line("object", p, Missing, FALSE, r, l) :
        p \in {PromptPlain, PromptImage, <<"Explain", " ", BULLET>>},
        r \in {Missing, <<"r1">>}, l \in {Missing, <<"English">>, <<"Hindi">>}}
\* the stub adapters: the string form holds output='4', alone or after an
\* earlier output field, and the attributes vary
TwoOutputs ==
    <<"ModelResponse(", OUTPUT_EQ, QUOTE, "5", QUOTE, COMMA, " ", OUTPUT_EQ, QUOTE,
      "4", QUOTE, COMMA, " status=ok)">>
StubResponses ==
    {RawResponse(ho, IF ho THEN <<"5">> ELSE <<>>, d[1], d[2],
                 IF d[2] THEN <<"5">> ELSE <<>>, r) :
        ho \in BOOLEAN, d \in {<<FALSE, FALSE>>, <<TRUE, FALSE>>, <<TRUE, TRUE>>},
        r \in {RespQuoted.repr, TwoOutputs}}
\* the texts of an adapter that answers through its output attribute: plain,
\* with markup the normalizer rewrites, with a character ASCII lacks, and
\* with a lone surrogate
TeacherContents ==
    {<<"4">>, <<STAR, STAR, "4", STAR, STAR>>, <<"-", " ", "4">>, <<"4", " ", BULLET>>,
     <<"4", SURR>>, <<PROCESSING, DOT, DOT, DOT, "4">>}
TeacherOutcomes ==
    {Returns(r) : r \in StubResponses \cup {AsOutput(c) : c \in TeacherContents}}
    \cup {Raises(m) : m \in ErrMsgs}
TeacherRequests == [line : TeacherLines, o : TeacherOutcomes]

\* the texts of an adapter that answers a summarization request with image
\* references: every text of up to MaxImageText tokens of the marker and the
\* img tag, and one text for each other kind of reference
ImageAlphabet == {"[", IMAGE_URL, "]", IMG_OPEN, ">", LF}
OtherReferences ==
    {ANCHOR_OPEN \o <<"/a.bin", DQUOTE, ">", "link">> \o ANCHOR_CLOSE,
     <<"!", "[", "alt", "]", "(", "u", ")">>,
     <<"see", " ", "https://", "host/a", DOT, "png">>,
     <<"[", IMG_OPEN, ">", IMAGE_URL, "x", "]">>,
     <<"A plain summary.">>}
ImageTexts == StringsUpTo(ImageAlphabet, MaxImageText) \cup OtherReferences
ImageReplies == {AsOutput(t) : t \in ImageTexts}

\* texts of markers, blanks, line ends and a letter for the bullet rule
BulletAlphabet == {"-", STAR, BULLET, " ", LF, "x"}
BulletTexts == StringsUpTo(BulletAlphabet, MaxText)

\* requests with and without a feature, prompts with and without the words
\* of the keyword scan, for either loop and the models the server loop loaded
Features == {Missing, <<"summary">>, <<"quiz">>, <<"translation">>, <<"text">>}
BranchPrompts ==
    {PromptPlain, PromptImage, <<"image", " ", "of a cat">>,
     <<"create", " ", "a summary">>}
BranchRequests ==
    {[loop |-> "main", request |-> [feature |-> f, prompt |-> p],
      aixplain_available |-> TRUE, gemini_model |-> TRUE,
      stable_diffusion_model |-> TRUE] : f \in Features, p \in BranchPrompts}
    \cup {[loop |-> "server", request |-> [feature |-> f, prompt |-> p],
           aixplain_available |-> a, gemini_model |-> g,
           stable_diffusion_model |-> d] :
              f \in Features, p \in BranchPrompts,
              a \in BOOLEAN, g \in BOOLEAN, d \in BOOLEAN}

\* voice requests: a recording with the flag set, with and without a
\* prompt; a transcription that returns text, returns none, or raises; a
\* generation that returns or raises
VoiceLines ==
    {Line("object", p, Audio1, TRUE, Missing, Missing) :
        p \in {Missing, <<>>, PromptPlain, PromptImage}}
Transcriptions == {<<>>, <<"hello">>, <<"draw", " ", "a dog">>}
VoiceRequests ==
    [line : VoiceLines,
     o1 : {Returns(AsOutput(t)) : t \in Transcriptions} \cup {Raises(m) : m \in ErrMsgs},
     o2 : {Returns(RespQuoted)} \cup {Raises(m) : m \in ErrMsgs}]

FunctionNames ==
    {"extract_content", "extract_content_ls", "extract_content_2", "normalize",
     "generate_quiz", "get_interview_questions", "interview_request",
     "teacher_request", "summarizer_summary", "language_summary",
     "unify_bullets", "select_branch", "voice_request"}
Arguments(f) ==
    CASE f = "extract_content" -> ResponsesOver(Reprs) \cup ShapeResponses
      [] f = "extract_content_ls" -> ShapeResponses
      [] f = "extract_content_2" -> ShapeResponses
      [] f = "normalize" -> Texts
      [] f = "generate_quiz" -> QuizCalls
      [] f = "get_interview_questions" -> InterviewCalls
      [] f = "interview_request" -> InterviewRequests
      [] f = "teacher_request" -> TeacherRequests
      [] f = "summarizer_summary" -> ImageReplies
      [] f = "language_summary" -> ImageReplies
      [] f = "unify_bullets" -> BulletTexts
      [] f = "select_branch" -> BranchRequests
      [] f = "voice_request" -> VoiceRequests

InitFunctions ==
    /\ script = "none"
    /\ pc = "apply"
    /\ line = NoLine
    /\ nRead = 0
    /\ nTurns = 0
    /\ stdout = <<>>
    /\ nSentinel = 0
    /\ calls = <<>>
    /\ conversation_history = <<>>
    /\ files = EmptyDir
    /\ saves = <<>>
    /\ clock = ClockStart
    /\ op \in FunctionNames
    /\ arg \in Arguments(op)
    /\ encoding \in IF op \in {"teacher_request", "voice_request"} THEN {"utf-8", "ascii"} ELSE {"utf-8"}
    /\ result = NotApplied
    /\ nEmpty = 0

\* what a call leaves alone: everything but the value returned
frame == <<script, line, nRead, nTurns, stdout, nSentinel, calls,
           conversation_history, files, saves, clock, encoding, op, arg, nEmpty>>

ApplyExtractContent ==
    /\ op = "extract_content" /\ pc = "apply"
    /\ result' = extract_content(arg)
    /\ pc' = "returned"
    /\ UNCHANGED frame

ApplyExtractContentLs ==
    /\ op = "extract_content_ls" /\ pc = "apply"
    /\ result' = extract_content_ls(arg)
    /\ pc' = "returned"
    /\ UNCHANGED frame

ApplyExtractContent2 ==
    /\ op = "extract_content_2" /\ pc = "apply"
    /\ result' = extract_content_2(arg)
    /\ pc' = "returned"
    /\ UNCHANGED frame

\* lines 296-310 applied to the content extracted
ApplyNormalize ==
    /\ op = "normalize" /\ pc = "apply"
    /\ result' = normalize(arg)
    /\ pc' = "returned"
    /\ UNCHANGED frame

\* line 304 alone: the bullet rule applied to a text
ApplyUnifyBullets ==
    /\ op = "unify_bullets" /\ pc = "apply"
    /\ result' = UnifyBullets(arg, 1)
    /\ pc' = "returned"
    /\ UNCHANGED frame

\* the branch selection of either loop for one request
SelectBranch ==
    /\ op = "select_branch" /\ pc = "apply"
    /\ result' =
          [branch |->
              IF arg.loop = "main" THEN BranchOfMainLoop(arg.request)
              ELSE BranchOfServerLoop(arg.request, arg.aixplain_available,
                                      arg.gemini_model, arg.stable_diffusion_model)]
    /\ pc' = "returned"
    /\ UNCHANGED frame

\* generate_quiz with the outcome of its call of agent.run
ApplyGenerateQuiz ==
    /\ op = "generate_quiz" /\ pc = "apply"
    /\ result' = generate_quiz(arg)
    /\ pc' = "returned"
    /\ UNCHANGED frame

\* get_interview_questions with the outcome of its call of the model
ApplyGetInterviewQuestions ==
    /\ op = "get_interview_questions" /\ pc = "apply"
    /\ result' = get_interview_questions(arg.job_details, arg.company_info, arg.o)
    /\ pc' = "returned"
    /\ UNCHANGED frame

\* lines 110-138: the request is handled and its answer printed
InterviewRequest ==
    /\ op = "interview_request" /\ pc = "apply"
    /\ stdout' = Append(stdout, interview_request(arg, clock))
    /\ pc' = "returned"
    /\ UNCHANGED <<script, line, nRead, nTurns, nSentinel, calls, conversation_history,
                   files, saves, clock, encoding, op, arg, result, nEmpty>>

\* one request of the teacher loop, handled from an empty history
TeacherRequestAlone ==
    /\ op = "teacher_request" /\ pc = "apply"
    /\ \E e \in {TeacherRequest(arg.line, NoOutcome, arg.o, "ok", conversation_history,
                                files, clock, encoding)} :
          /\ conversation_history' = e.history
          /\ stdout' = e.out
          /\ nSentinel' = nSentinel + CountSentinel(e.out)
          /\ calls' = e.calls
          /\ files' = e.files
          /\ saves' = saves \o e.saved
    /\ pc' = "returned"
    /\ UNCHANGED <<script, line, nRead, nTurns, clock, encoding, op, arg, result, nEmpty>>

\* one voice request of the teacher loop, handled from an empty history
VoiceRequestAlone ==
    /\ op = "voice_request" /\ pc = "apply"
    /\ \E e \in {TeacherRequest(arg.line, arg.o1, arg.o2, "ok", conversation_history,
                                files, clock, encoding)} :
          /\ conversation_history' = e.history
          /\ stdout' = e.out
          /\ nSentinel' = nSentinel + CountSentinel(e.out)
          /\ calls' = e.calls
          /\ files' = e.files
          /\ saves' = saves \o e.saved
    /\ pc' = "returned"
    /\ UNCHANGED <<script, line, nRead, nTurns, clock, encoding, op, arg, result, nEmpty>>

\* summarizer_agent.py lines 213-221: the content extracted from the reply,
\* then the five substitutions
SummarizerSummary ==
    /\ op = "summarizer_summary" /\ pc = "apply"
    /\ result' = strip_images(extract_content(arg))
    /\ pc' = "returned"
    /\ UNCHANGED frame

\* language_summarizer.py lines 105-112: the summary of summarize_text
LanguageSummary ==
    /\ op = "language_summary" /\ pc = "apply"
    /\ result' = extract_content_ls(arg)
    /\ pc' = "returned"
    /\ UNCHANGED frame

NextFunctions ==
    \/ ApplyExtractContent
    \/ ApplyExtractContentLs
    \/ ApplyExtractContent2
    \/ ApplyNormalize
    \/ ApplyUnifyBullets
    \/ SelectBranch
    \/ VoiceRequestAlone
    \/ ApplyGenerateQuiz
    \/ ApplyGetInterviewQuestions
    \/ InterviewRequest
    \/ TeacherRequestAlone
    \/ SummarizerSummary
    \/ LanguageSummary

SpecFunctions == InitFunctions /\ [][NextFunctions]_vars

(***************************************************************************)
(* Properties of the request loops.                                        *)
(***************************************************************************)
LoopScripts == {"teacher", "summarizer", "language_summarizer"}
\* the handling of the line read is over: stdout and calls hold what it
\* wrote and what it asked of the adapter
Answered == line # NoLine /\ pc # "handle"
LastWrite == stdout[Len(stdout)]
Contains(text, part) == \E j \in 1..Len(text) : IsPrefixAt(text, part, j)
\* some write of the request holds msg, as it is or as json.dumps writes it
Carries(msg) ==
    \E i \in 1..Len(stdout) :
        Contains(stdout[i], msg) \/ Contains(stdout[i], EscapeAll(msg))
Raised(tool) ==
    \E i \in 1..Len(calls) : calls[i].tool = tool /\ calls[i].raises

\* C1 as stated: in every agent script, what is written to stdout for a
\* request ends with the token RESPONSE_COMPLETE.
C1_EveryScriptEndsWithSentinel ==
    Answered /\ stdout # <<>> => EndsWithSentinel(LastWrite)

\* C1 amended: in the three loop scripts every line handed to the loop body
\* gets output, and the last write for it ends with RESPONSE_COMPLETE; the
\* one-shot quiz generator writes one JSON text that holds no sentinel.
C1_LoopResponsesEndWithSentinel ==
    /\ Answered /\ script \in LoopScripts /\ line # Undecodable
          => stdout # <<>> /\ EndsWithSentinel(LastWrite)
    /\ Answered /\ script = "quiz"
          => Len(stdout) = 1 /\ NoneIn(stdout[1], 1, Len(stdout[1]), SENTINEL)

C1_Witness ==
    /\ Answered /\ script = "teacher" /\ line.prompt = PromptImage
    /\ Len(stdout) = 2 /\ EndsWithSentinel(LastWrite)

\* C2 as stated: reads and responses alternate in every script: each line
\* read has exactly one sentinel-terminated response before the next read.
C2_ReadsAndResponsesAlternate ==
    /\ pc = "handle" => nSentinel = nRead - 1
    /\ pc # "handle" => nSentinel = nRead

\* C2 amended: in the three loop scripts each line read has exactly one
\* sentinel-terminated response, written before the next line is read; the
\* quiz generator reads at most one line, writes no sentinel, and ends.
C2_LoopReadsAndResponsesAlternate ==
    /\ script \in LoopScripts =>
          /\ pc = "handle" => nSentinel = nRead - 1
          /\ pc # "handle" => nSentinel = nRead
          /\ Answered /\ pc = "read" => CountSentinel(stdout) = 1
    /\ script = "quiz" =>
          /\ nRead <= 1 /\ nSentinel = 0
          /\ Answered => pc = "done"

C2_Witness ==
    script = "teacher" /\ pc = "read" /\ nRead = 2 /\ nSentinel = 2

\* C3 as stated: a line that is not valid JSON, or not a JSON object,
\* yields an error response, and no input line ends the loop or the process.
C3_BadLineAnsweredAndLoopGoesOn ==
    /\ Answered /\ script \in LoopScripts => pc = "read"
    /\ Answered /\ script \in LoopScripts /\ line.json # "object"
          => Len(stdout) = 1 /\ EndsWithSentinel(stdout[1])

\* a request whose prompt and audioData are both absent or empty
EmptyRequest(ln) ==
    /\ ln.json = "object"
    /\ ln.prompt \in {Missing, <<>>}
    /\ ln.audioData \in {Missing, <<>>}

\* C4: a request whose prompt and audioData are both absent or empty gets
\* the empty-input error, and agent.run is not called while it is handled.
C4_EmptyInputShortCircuits ==
    Answered /\ EmptyRequest(line) /\ script \in {"teacher", "summarizer"} =>
        /\ calls = <<>>
        /\ pc = "read"
        /\ Len(stdout) = 1 /\ EndsWithSentinel(stdout[1])
        /\ IF script = "teacher"
           THEN stdout[1] = <<EMPTY_INPUT, SENTINEL>>
           ELSE Contains(stdout[1], <<"Empty content received">>)

C4_Witness ==
    /\ Answered /\ script = "teacher" /\ EmptyRequest(line)
    /\ line.isVoiceInput /\ calls = <<>>
    /\ stdout = <<<<EMPTY_INPUT, SENTINEL>>>>

\* C5 as stated: when agent.run raises during a request, the response
\* carries the message of the exception, is a single sentinel-terminated
\* response, and the loop goes on.  Stated here for a stdout that can
\* encode every character.
C5_AdapterFailureCarriesMessage ==
    Answered /\ script \in LoopScripts /\ encoding = "utf-8" =>
        \A i \in 1..Len(calls) : calls[i].raises =>
            /\ pc = "read"
            /\ CountSentinel(stdout) = 1 /\ EndsWithSentinel(LastWrite)
            /\ Carries(calls[i].msg)

\* C5 amended: a request in which agent.run raises is answered by a single
\* sentinel-terminated response and the loop goes on.  When the generation
\* call raises the response carries the message, except in the teacher when
\* stdout cannot encode it: then the response is the outer error text with
\* the message of the UnicodeEncodeError.  When the transcription call raises
\* and a prompt was supplied the exception is swallowed: generation goes on
\* with that prompt and its answer does not carry the message; with no
\* prompt the response is the voice error text with the message (or the
\* apology with the message of the UnicodeEncodeError).
C5_FailureAnsweredOnce ==
    Answered /\ script \in LoopScripts =>
        \A i \in 1..Len(calls) : calls[i].raises =>
            /\ pc = "read"
            /\ CountSentinel(stdout) = 1 /\ EndsWithSentinel(LastWrite)
            /\ calls[i].tool = "generation" =>
                  IF Unencodable(calls[i].msg, encoding)
                  THEN LastWrite = <<OUTER_ERROR>> \o UnicodeEncodeErrorMsg
                                   \o <<SENTINEL>>
                  ELSE Carries(calls[i].msg)
            /\ calls[i].tool = "speech-to-text" =>
                  IF Truthy(Get(line.prompt, <<>>))
                  THEN /\ Len(calls) = 2 /\ calls[2].tool = "generation"
                       /\ ~calls[2].raises => ~Carries(calls[i].msg)
                  ELSE /\ Len(calls) = 1
                       /\ LastWrite =
                             IF Unencodable(calls[i].msg, encoding)
                             THEN <<SORRY>> \o UnicodeEncodeErrorMsg \o <<SENTINEL>>
                             ELSE <<VOICE_ERROR>> \o calls[i].msg \o <<SENTINEL>>

C5_Witness ==
    /\ Answered /\ script = "teacher" /\ encoding = "utf-8"
    /\ Len(calls) = 2 /\ calls[1].raises /\ ~calls[2].raises
    /\ ~Carries(calls[1].msg)

(***************************************************************************)
(* Properties of the conversation history of basic_agent.py.               *)
(***************************************************************************)
\* a step of the teacher loop body, and the end-of-stream step
TeacherAnswers == pc = "handle" /\ script = "teacher" /\ pc' # "handle"
TeacherShutsDown == pc = "read" /\ script = "teacher" /\ pc' = "done"
\* xs' is xs with one more element
GrowsByOne(xs, ys) == Len(ys) = Len(xs) + 1 /\ SubSeq(ys, 1, Len(xs)) = xs

\* C6 as stated: every request the teacher answers appends exactly one
\* turn to the history, the empty-input error and the failed-transcription
\* error included.
C6_OneTurnPerAnsweredRequest ==
    [][TeacherAnswers /\ line.json = "object" /\ line.prompt # Null
          => Len(conversation_history') = Len(conversation_history) + 1]_vars

\* C6 amended: a request adds exactly one turn when it gets as far as the
\* generation step (an adapter failure there included, the turn then holds
\* the apology with the message), and none when it is answered with the
\* empty-input error, with the failed-transcription error, or by the outer
\* handler for a line it could not take apart; no request adds more than one.
C6_OneTurnWhenGenerationReached ==
    [][TeacherAnswers =>
          LET answer == stdout'[Len(stdout')]
              short == \/ line.json # "object"
                       \/ line.prompt = Null
                       \/ answer = <<EMPTY_INPUT, SENTINEL>>
                       \/ answer[1] = VOICE_ERROR
              turn == conversation_history'[Len(conversation_history')]
          IN  IF short
              THEN conversation_history' = conversation_history
              ELSE /\ GrowsByOne(conversation_history, conversation_history')
                   /\ \A i \in 1..Len(calls') :
                         calls'[i].tool = "generation" /\ calls'[i].raises
                            => turn.assistant = <<SORRY>> \o calls'[i].msg
      ]_vars

C6_Witness ==
    /\ script = "teacher" /\ Answered /\ nRead = 2
    /\ stdout = <<<<EMPTY_INPUT, SENTINEL>>>>
    /\ Len(conversation_history) = 1
    /\ conversation_history[1].assistant[1] = SORRY

\* C7: in the loop a checkpoint is made after an append if and only if the
\* history length is then a multiple of 3; it saves the whole history.  (A
\* save whose open or dump fails is still the checkpoint being made.)
C7_CheckpointIffMultipleOfThree ==
    [][TeacherAnswers =>
          LET due == /\ Len(conversation_history') > Len(conversation_history)
                     /\ Len(conversation_history') % 3 = 0
              made == saves'[Len(saves')]
          IN  IF due
              THEN /\ GrowsByOne(saves, saves')
                   /\ made.site = "checkpoint"
                   /\ made.data = conversation_history'
                   /\ made.outcome = "ok" =>
                         /\ made.name \in DOMAIN files'
                         /\ files'[made.name] = JsonFile(conversation_history')
              ELSE saves' = saves /\ files' = files
      ]_vars

C7_Witness ==
    /\ script = "teacher" /\ Answered
    /\ Len(conversation_history) = 6
    /\ Len(saves) = 1 /\ saves[1].site = "checkpoint"
    /\ Len(saves[1].data) = 6

\* C8: when the input stream ends the whole history is flushed exactly once
\* more, whatever its length (not a multiple of 3, or empty).
C8_FinalFlushOnce ==
    [][TeacherShutsDown =>
          LET made == saves'[Len(saves')]
          IN  /\ GrowsByOne(saves, saves')
              /\ made.site = "shutdown"
              /\ made.data = conversation_history
              /\ \A i \in 1..Len(saves) : saves[i].site # "shutdown"
              /\ made.outcome = "ok" =>
                    /\ made.name \in DOMAIN files'
                    /\ files'[made.name] = JsonFile(conversation_history)
      ]_vars

C8_Witness ==
    /\ script = "teacher" /\ pc = "done"
    /\ Len(conversation_history) = 1
    /\ Len(saves) = 1 /\ saves[1].site = "shutdown" /\ saves[1].outcome = "ok"
    /\ files[saves[1].name] = JsonFile(conversation_history)

\* the names of a directory that end in .json
JsonNames(fs) == {f \in DOMAIN fs : f[Len(f)] = ".json"}

\* C9: at process start the history is the content of the
\* lexicographically last .json file of the history directory, and is
\* empty when the directory has no .json file.  (Stated for a last file
\* that holds JSON.)
C9_StartupLoadsLastJsonFile ==
    script = "teacher" /\ pc = "read" /\ nRead = 0 =>
        IF JsonNames(files) = {}
        THEN conversation_history = <<>>
        ELSE \E f \in JsonNames(files) :
                /\ \A g \in JsonNames(files) : g = f \/ LexLess(g, f)
                /\ files[f].json => conversation_history = files[f].data

C9_Witness ==
    /\ script = "teacher" /\ pc = "read" /\ nRead = 0
    /\ Cardinality(JsonNames(files)) = 2
    /\ Cardinality(DOMAIN files) = 3
    /\ Len(conversation_history) = 2

\* C10 as stated: every checkpoint and the shutdown flush writes the history
\* to a new file whose name is greater than the name of every file written
\* before it: no snapshot is overwritten, and there are as many files
\* written as flushes.
C10_EveryFlushWritesANewFile ==
    LET written == SelectSeq(saves, LAMBDA e : e.outcome = "ok")
    IN  /\ \A i, j \in 1..Len(written) :
              i < j => LexLess(written[i].name, written[j].name)
        /\ Cardinality({written[i].name : i \in 1..Len(written)}) = Len(written)

(***************************************************************************)
(* Failures of the history directory.                                      *)
(***************************************************************************)
\* json.load rejects the last .json file of the directory
LoadFails(fs) ==
    \E f \in JsonNames(fs) :
        /\ \A g \in JsonNames(fs) : g = f \/ LexLess(g, f)
        /\ ~fs[f].json
TeacherStarts == pc = "start" /\ script = "teacher" /\ pc' = "read"

\* C11: a failure while loading the history starts the process with an
\* empty history and the loop is entered; a failure while saving at a
\* checkpoint leaves the in-memory history as the append made it, the
\* response of the request is still written with its sentinel, the loop goes
\* on, and no snapshot is added to the directory.
C11_HistoryFailuresAreNotFatal ==
    [][/\ TeacherStarts /\ LoadFails(files) =>
             conversation_history' = <<>> /\ files' = files
       /\ TeacherAnswers /\ saves' # saves
          /\ saves'[Len(saves')].outcome # "ok" =>
             LET made == saves'[Len(saves')]
             IN  /\ GrowsByOne(conversation_history, conversation_history')
                 /\ conversation_history' = made.data
                 /\ pc' = "read"
                 /\ CountSentinel(stdout') = 1
                 /\ EndsWithSentinel(stdout'[Len(stdout')])
                 /\ \A f \in DOMAIN files' :
                       files'[f].json => f \in DOMAIN files /\ files[f] = files'[f]
      ]_vars

C11_Witness ==
    /\ script = "teacher" /\ Answered /\ pc = "read"
    /\ Len(saves) = 1 /\ saves[1].site = "checkpoint"
    /\ saves[1].outcome = "dump_fails"
    /\ Len(conversation_history) = 3
    /\ conversation_history = saves[1].data
    /\ EndsWithSentinel(LastWrite)
    /\ files[saves[1].name] = CorruptFile

(***************************************************************************)
(* Properties of extract_content.                                          *)
(***************************************************************************)
Applied(f) == op = f /\ pc = "returned"
IsStr(x) == x \notin {NonStr, Null, Missing}
\* no tier finds text: no output attribute, no data.output, no output= in
\* the string form
NoTier(r) ==
    /\ ~r.hasOutput
    /\ ~(r.hasData /\ r.dataHasOutput)
    /\ Find(r.repr, OUTPUT_EQ, 1) = 0
\* the attribute the tiers pick exists and is not a str
NonStrChosen(r) ==
    \/ r.hasOutput /\ r.output = NonStr
    \/ ~r.hasOutput /\ r.hasData /\ r.dataHasOutput /\ r.dataOutput = NonStr
\* text has no backslash-n and no backslash-t pair
NoEscapes(text) ==
    \A i \in 1..Len(text) - 1 : ~(text[i] = BSL /\ text[i + 1] \in {"n", "t"})

\* C12 as stated: extract_content returns a str for every response, and
\* when no tier yields text, or the attribute picked is not a str, the
\* result is str(response).
C12_DegradesToStringForm ==
    Applied("extract_content") =>
        /\ IsStr(result)
        /\ NoTier(arg) \/ NonStrChosen(arg) => result = arg.repr

\* C12 amended: extract_content returns a str for every response.  When the
\* attribute picked is not a str the result is str(response) as it is; when
\* no tier finds text the result is str(response) after the clean-up: equal
\* to it when it has no backslash-n or backslash-t pair, and otherwise the
\* text with those pairs replaced by a newline or a tab.
C12_DegradesToStringFormOrItsCleanUp ==
    Applied("extract_content") =>
        /\ IsStr(result)
        /\ NonStrChosen(arg) => result = arg.repr
        /\ NoTier(arg) =>
              /\ NoEscapes(arg.repr) => result = arg.repr
              /\ result = Replace(Replace(arg.repr, <<BSL, "n">>, <<LF>>),
                                  <<BSL, "t">>, <<TAB>>)

C12_Witness ==
    /\ Applied("extract_content")
    /\ arg.hasOutput /\ arg.output = NonStr
    /\ arg.repr = <<OUTPUT_EQ, QUOTE, "4", QUOTE>>
    /\ result = arg.repr

\* C13 as stated: for the same content carried in each of the four response
\* shapes (output attribute, nested data.output, mapping with an output key,
\* string form with output='...'), each extract_content returns the string
\* it returns for the output attribute.
C13_SameStringForEveryShape ==
    \A f \in {"extract_content", "extract_content_ls", "extract_content_2"} :
        Applied(f) =>
            \A c \in Contents :
                arg \in ShapesOf(c) =>
                    result = (CASE f = "extract_content" -> extract_content(AsOutput(c))
                                [] f = "extract_content_ls" -> extract_content_ls(AsOutput(c))
                                [] f = "extract_content_2" -> extract_content_2(AsOutput(c)))

(***************************************************************************)
(* Properties of the normalizer.                                           *)
(***************************************************************************)
\* C14 as stated: the rule sequence of the text branch (unescape, artifact
\* stripping, bullet unification, bold rewriting, newline collapsing) is
\* idempotent: applied to its own output it returns that output unchanged.
C14_NormalizeIsIdempotent ==
    Applied("normalize") => normalize(result) = result

(***************************************************************************)
(* Properties of the quiz generator.                                       *)
(***************************************************************************)
\* the reply of the call is its final output, and that output is text
FinalOutput(o) == ~o.raises /\ o.resp.hasDataOutput /\ ~o.resp.hasSteps
\* the items of an array of the reply as json.loads gives them
Parsed(array) ==
    LET items == SelectSeq(array, LAMBDA tok : tok \in ObjectTokens)
    IN  [k \in 1..Len(items) |-> ObjectOf(items[k])]
\* the item p with the key correct_answer renamed
WithIndex(p) ==
    IF "correct_answer" \notin DOMAIN p THEN p
    ELSE [k \in (DOMAIN p \ {"correct_answer"}) \cup {"correctAnswerIndex"} |->
             IF k = "correctAnswerIndex" THEN p["correct_answer"] ELSE p[k]]
Renamed(array) == [k \in 1..Len(Parsed(array)) |-> WithIndex(Parsed(array)[k])]

\* C15 as stated: when the reply is not parseable as it is, the question
\* array is still returned if the reply holds it in a fenced json block
\* with prose around it, or as the first balanced [...] span of the text
\* with bracketed text that is not an array after it.
C15_ArrayRecoveredFromProse ==
    Applied("generate_quiz") /\ FinalOutput(arg) =>
        \A v \in ObjectArrays, p \in Prefixes, x \in Suffixes :
            /\ p # <<>> \/ x # <<>>
            /\ arg.resp.text \in {p \o Fenced(v) \o x, p \o v \o x}
            => result.success /\ result.questions = Renamed(v)

\* the text generate_quiz parses: the final output, or the output of the
\* tool step when the run stopped
TextOf(o) == IF o.resp.hasSteps THEN o.resp.steps[1].output ELSE o.resp.text

\* C16 as stated: after a successful generation no item has the key
\* correct_answer, every item that had it has correctAnswerIndex with the
\* same value, every other key and value of every item is as parsed, and no
\* item is added or removed.
C16_OnlyTheKeyIsRenamed ==
    Applied("generate_quiz") /\ result.success =>
        \A v \in ObjectArrays :
            Contains(TextOf(arg), v) =>
                /\ Len(result.questions) = Len(Parsed(v))
                /\ \A k \in 1..Len(Parsed(v)) :
                      LET p == Parsed(v)[k]
                          q == result.questions[k]
                      IN  /\ "correct_answer" \notin DOMAIN q
                          /\ "correct_answer" \in DOMAIN p =>
                                /\ "correctAnswerIndex" \in DOMAIN q
                                /\ q["correctAnswerIndex"] = p["correct_answer"]
                          /\ \A key \in DOMAIN p \ {"correct_answer"} :
                                key \in DOMAIN q /\ q[key] = p[key]
                          /\ \A key \in DOMAIN q \ {"correctAnswerIndex"} :
                                key \in DOMAIN p

\* C16 amended: as stated, except for an item parsed with both keys: its own
\* correctAnswerIndex is overwritten by the value of correct_answer.  Every
\* key other than these two keeps its value, no key is added to an item
\* that had neither, and no item is added or removed.
C16_KeyRenamedOverExistingIndex ==
    Applied("generate_quiz") /\ result.success =>
        \A v \in ObjectArrays :
            Contains(TextOf(arg), v) =>
                /\ Len(result.questions) = Len(Parsed(v))
                /\ \A k \in 1..Len(Parsed(v)) :
                      LET p == Parsed(v)[k]
                          q == result.questions[k]
                          had == "correct_answer" \in DOMAIN p
                      IN  /\ "correct_answer" \notin DOMAIN q
                          /\ had => /\ "correctAnswerIndex" \in DOMAIN q
                                    /\ q["correctAnswerIndex"] = p["correct_answer"]
                          /\ ~had => q = p
                          /\ \A key \in DOMAIN p \ {"correct_answer", "correctAnswerIndex"} :
                                key \in DOMAIN q /\ q[key] = p[key]
                          /\ \A key \in DOMAIN q \ {"correctAnswerIndex"} :
                                key \in DOMAIN p

C16_Witness ==
    /\ Applied("generate_quiz") /\ result.success
    /\ arg.resp.text = <<"[", "{question, correctAnswerIndex: 1, correct_answer: 2}", "]">>
    /\ result.questions = <<[question |-> "q", correctAnswerIndex |-> 2]>>

\* C17 as stated: when the reply has no accessible output, holds no JSON
\* that can be recovered, or parses to a value that is not a sequence of
\* objects, generate_quiz returns success = false with an error message
\* and an empty questions array.
C17_UnusableReplyGivesFailure ==
    /\ Applied("generate_quiz") /\ ~arg.raises /\ ~arg.resp.hasSteps
    /\ \/ ~arg.resp.hasDataOutput
       \/ arg.resp.text = NoJson
       \/ arg.resp.text \in OtherValues
    => /\ ~result.success
       /\ result.error # <<>>
       /\ result.questions = <<>>

\* the reply of the model as the claim reads it: a list of exactly 5 objects
\* that each have the three keys
FiveQuestions(o) ==
    /\ ~o.raises
    /\ LET parsed == JsonLoads(DropLeadingTrailing(o.text))
       IN  /\ parsed.ok /\ parsed.list /\ Len(parsed.items) = 5
           /\ \A k \in 1..Len(parsed.items) :
                 {"question", "explanation", "sample_answer"} \subseteq DOMAIN parsed.items[k]

\* C18: get_interview_questions returns the parsed reply only when it is a
\* list of exactly 5 objects that each have the keys question, explanation and
\* sample_answer; in every other case it returns a list holding exactly one
\* synthetic error item, and it does not raise.
C18_FiveQuestionsOrOneErrorItem ==
    Applied("get_interview_questions") =>
        /\ ~result.raised
        /\ IF FiveQuestions(arg.o)
           THEN /\ ~result.synthetic
                /\ result.value = JsonLoads(DropLeadingTrailing(arg.o.text)).items
           ELSE /\ result.synthetic
                /\ Len(result.value) = 1

\* the keys of the object a printed line holds: the strings followed by a
\* colon outside every nested object, array and string
RECURSIVE TopKeysFrom(_, _, _, _)
TopKeysFrom(text, i, depth, inString) ==
    IF i > Len(text) THEN {}
    ELSE IF inString
    THEN IF text[i] = BSL THEN TopKeysFrom(text, i + 2, depth, TRUE)
         ELSE TopKeysFrom(text, i + 1, depth, text[i] # DQUOTE)
    ELSE IF text[i] = DQUOTE
    THEN (IF /\ depth = 1 /\ i + 3 <= Len(text)
             /\ text[i + 1] \notin {BSL, DQUOTE}
             /\ text[i + 2] = DQUOTE /\ text[i + 3] = ": "
          THEN {text[i + 1]} ELSE {})
         \cup TopKeysFrom(text, i + 1, depth, TRUE)
    ELSE IF text[i] \in {"{", "["} THEN TopKeysFrom(text, i + 1, depth + 1, FALSE)
    ELSE IF text[i] \in {"}", "]"} THEN TopKeysFrom(text, i + 1, depth - 1, FALSE)
    ELSE TopKeysFrom(text, i + 1, depth, FALSE)
TopKeys(text) == TopKeysFrom(text, 1, 0, FALSE)
IsObjectText(text) == Len(text) >= 2 /\ text[1] = "{" /\ text[Len(text)] = "}"
EnvelopeKeys == {"questions", "timestamp"}
CommandLine(req) == ~Falsy(req.args_job_details) /\ ~Falsy(req.args_company_info)
\* the stdin input names both fields, and the job details can be sliced
UsableStdin(req) ==
    /\ req.stdin.kind = "object"
    /\ ~Falsy(req.stdin.job_details) /\ ~Falsy(req.stdin.company_info)
    /\ req.stdin.job_details # NonStr

TextRequest(ln) ==
    /\ ln.json = "object"
    /\ Truthy(Get(ln.prompt, <<>>))
    /\ ~MakesTranscriptionCall(ln)
    /\ ~is_image_request(Get(ln.prompt, <<>>))
\* the call of the adapter returned, and the one line written ends in the
\* sentinel and is not the error report of the loop
AnsweredWithoutError ==
    /\ ~arg.o.raises
    /\ Len(stdout) = 1
    /\ stdout[1][Len(stdout[1])] = SENTINEL
    /\ stdout[1][1] # OUTER_ERROR
Payload == Slice(stdout[1], 1, Len(stdout[1]) - 1)
TurnKeepsRequest(turn) ==
    /\ turn.user = arg.line.prompt
    /\ turn.request_id = Get(arg.line.requestId, <<"unknown">>)
    /\ turn.language = Get(arg.line.language, <<"English">>)
HoldsOutput4(r) == Contains(r, <<OUTPUT_EQ, QUOTE, "4", QUOTE>>)
FirstOutputIs4(r) ==
    \E i \in 1..Len(r) :
        /\ IsPrefixAt(r, <<OUTPUT_EQ, QUOTE, "4", QUOTE>>, i)
        /\ \A j \in 1..(i - 1) : r[j] # OUTPUT_EQ

\* C20 as stated: for a text request with prompt P answered without error,
\* the turn appended to the history has user = P, assistant = exactly the
\* payload written to output before the sentinel, and the request's requestId
\* and language; with a stub adapter whose string form contains output='4'
\* (and no output attribute) the extracted content, the assistant field and
\* the written payload are all "4".
C20_TurnIsWhatWasWritten ==
    Applied("teacher_request") /\ TextRequest(arg.line) /\ AnsweredWithoutError =>
        /\ Len(conversation_history) = 1
        /\ TurnKeepsRequest(conversation_history[1])
        /\ conversation_history[1].assistant = Payload
        /\ ~arg.o.resp.hasOutput /\ HoldsOutput4(arg.o.resp.repr) =>
              /\ extract_content(arg.o.resp) = <<"4">>
              /\ conversation_history[1].assistant = <<"4">>
              /\ Payload = <<"4">>

\* C20 as amended: for a text request with prompt P answered without error,
\* the turn appended has user = P and the request's requestId and language
\* (or their defaults), and the payload written before the sentinel is the
\* assistant field with every lone surrogate replaced by "?"; with a stub
\* adapter that has neither an output attribute nor data.output and whose
\* string form has output='4' as its first output field, the extracted
\* content, the assistant field and the written payload are all "4".
C20_TurnIsWhatWasWrittenUpToReplacement ==
    Applied("teacher_request") /\ TextRequest(arg.line) /\ AnsweredWithoutError =>
        LET assistant == conversation_history[1].assistant
        IN  /\ Len(conversation_history) = 1
            /\ TurnKeepsRequest(conversation_history[1])
            /\ Len(Payload) = Len(assistant)
            /\ \A i \in 1..Len(assistant) :
                  Payload[i] = IF assistant[i] = SURR THEN "?" ELSE assistant[i]
            /\ (/\ ~arg.o.resp.hasOutput
                /\ ~(arg.o.resp.hasData /\ arg.o.resp.dataHasOutput)
                /\ FirstOutputIs4(arg.o.resp.repr)) =>
                  /\ extract_content(arg.o.resp) = <<"4">>
                  /\ assistant = <<"4">>
                  /\ Payload = <<"4">>

\* the scenario of the spec: the prompt "What is 2+2?" with requestId r1 is
\* answered by the stub whose string form holds output='4'
C20_Witness ==
    /\ Applied("teacher_request")
    /\ arg.line.prompt = PromptPlain /\ arg.line.requestId = <<"r1">>
    /\ ~arg.o.raises /\ arg.o.resp = RespQuoted
    /\ Len(conversation_history) = 1
    /\ conversation_history[1].user = PromptPlain
    /\ conversation_history[1].assistant = <<"4">>
    /\ stdout = <<<<"4", SENTINEL>>>>

\* the writer ran for the request: the turn is in the history
WriterRan == Applied("teacher_request") /\ Len(conversation_history) = 1
\* print(content + sentinel) raises UnicodeEncodeError: the content has a
\* lone surrogate, or a character the encoding of stdout lacks
CannotWrite(content) ==
    \/ \E i \in 1..Len(content) : content[i] = SURR
    \/ encoding = "ascii" /\ \E i \in 1..Len(content) : content[i] = BULLET
Replaced(content) == [i \in 1..Len(content) |-> IF content[i] = SURR THEN "?" ELSE content[i]]

\* C21: when writing the payload fails with an encoding error, the writer
\* writes a lossy re-encoding of the payload followed by the sentinel; on
\* every path through the writer, a failure of the second write included,
\* the sentinel of the request is emitted exactly once and never dropped.
C21_SentinelOnceOnEveryWriterPath ==
    WriterRan =>
        LET content == conversation_history[1].assistant
        IN  /\ CountSentinel(stdout) = 1
            /\ EndsWithSentinel(stdout[Len(stdout)])
            /\ \A i \in 1..Len(stdout) :
                  Cardinality({j \in 1..Len(stdout[i]) : stdout[i][j] = SENTINEL}) <= 1
            /\ CannotWrite(content) /\ ~CannotWrite(Replaced(content)) =>
                  stdout[Len(stdout)] = Replaced(content) \o <<SENTINEL>>

\* the first write failed and the re-encoded payload was written
C21_Witness ==
    /\ WriterRan
    /\ CannotWrite(conversation_history[1].assistant)
    /\ stdout = <<Replaced(conversation_history[1].assistant) \o <<SENTINEL>>>>
\* both writes failed and the error report carried the sentinel
C21_WitnessSecondFailure ==
    /\ WriterRan
    /\ CannotWrite(Replaced(conversation_history[1].assistant))
    /\ stdout[Len(stdout)][1] = OUTER_ERROR

\* C22: when the input stream reaches end-of-stream the request loop ends
\* without emitting an error response and the process terminates after the
\* final history flush, whether or not --server-mode was given: the step
\* taken at the end of the stream writes no response, the first loop leaves
\* for the exit or for the server-mode section, and the server-mode loop
\* leaves for the exit.
C22_EndOfStreamEndsTheProcess ==
    [][(pc \in {"read", "server"} /\ line' = NoLine) =>
          /\ CountSentinel(stdout') = 0
          /\ pc' # pc
          /\ pc = "server" => pc' = "done"]_vars

\* an image reference in a text: a bracketed IMAGE_URL marker, an img tag,
\* an anchor to the asset-hosting domain, a markdown image, or a URL that
\* ends in an image extension
Between(t, open, close) ==
    \E i \in 1..Len(t) : IsPrefixAt(t, open, i) /\
        \E j \in (i + Len(open))..Len(t) : IsPrefixAt(t, close, j)
HasImageReference(t) ==
    \/ Between(t, <<"[", IMAGE_URL>>, <<"]">>)
    \/ Between(t, <<IMG_OPEN>>, <<">">>)
    \/ Between(t, ANCHOR_OPEN, ANCHOR_CLOSE)
    \/ \E i \in 1..Len(t) : MarkdownImageEnd(t, i) # 0
    \/ \E i \in 1..Len(t) : ImageUrlEnd(t, i) # 0

\* C23: every summary returned by a summarization branch is free of image
\* references, whatever text the adapter returned: no [IMAGE_URL: ...] marker,
\* no img tag, no anchor to the asset-hosting domain, no markdown image, no
\* bare URL ending in jpg, jpeg, png, gif or webp.
C23_SummaryHasNoImageReference ==
    Applied("summarizer_summary") \/ Applied("language_summary") =>
        ~HasImageReference(result)

\* C23 for summarizer_agent.py alone, with a reference read as one match of
\* the pattern the script deletes
C23_SummarizerLeavesNoMatch ==
    Applied("summarizer_summary") =>
        \A i \in 1..Len(result) :
            /\ MarkerEnd(result, i) = 0 /\ ImgEnd(result, i) = 0
            /\ AnchorEnd(result, i) = 0 /\ MarkdownImageEnd(result, i) = 0
            /\ ImageUrlEnd(result, i) = 0

\* the sources of extract_content as the claim lists them, over the string
\* form r: the group of the first output='...', the group of the first
\* output=...,  and the text after the first output=
QuotedGroup(r, i, j) ==
    /\ i + 2 < j /\ j <= Len(r)
    /\ r[i] = OUTPUT_EQ /\ r[i + 1] = QUOTE /\ r[j] = QUOTE
    /\ \A k \in (i + 2)..(j - 1) : r[k] # QUOTE
CommaGroup(r, i, j) ==
    /\ i + 1 < j /\ j <= Len(r)
    /\ r[i] = OUTPUT_EQ /\ r[j] = COMMA
    /\ \A k \in (i + 1)..(j - 1) : r[k] # COMMA
HasQuoted(r) == \E i, j \in 1..Len(r) : QuotedGroup(r, i, j)
HasComma(r) == \E i, j \in 1..Len(r) : CommaGroup(r, i, j)
HasOutputEq(r) == \E i \in 1..Len(r) : r[i] = OUTPUT_EQ
\* the tier that applies first
TierOf(response) ==
    IF response.hasOutput THEN 1
    ELSE IF response.hasData /\ response.dataHasOutput THEN 2
    ELSE IF HasQuoted(response.repr) THEN 3
    ELSE IF HasComma(response.repr) THEN 4
    ELSE IF HasOutputEq(response.repr) THEN 5
    ELSE 6
\* v is what tier n yields for the response, quotes around it left out
IsTierValue(response, n, v) ==
    LET r == response.repr
    IN  CASE n = 1 -> v = response.output
          [] n = 2 -> v = response.dataOutput
          [] n = 3 -> \E i, j \in 1..Len(r) :
                         /\ QuotedGroup(r, i, j)
                         /\ \A a, b \in 1..Len(r) : QuotedGroup(r, a, b) => i <= a
                         /\ v = Slice(r, i + 2, j - 1)
          [] n = 4 -> \E i, j \in 1..Len(r) :
                         /\ CommaGroup(r, i, j)
                         /\ \A a, b \in 1..Len(r) : CommaGroup(r, a, b) => i <= a
                         /\ v = StripQuote(Slice(r, i + 1, j - 1))
          [] n = 5 -> \E i \in 1..Len(r) :
                         /\ r[i] = OUTPUT_EQ
                         /\ \A a \in 1..(i - 1) : r[a] # OUTPUT_EQ
                         /\ \E e \in i..(Len(r) + 1) :
                               /\ e <= Len(r) => r[e] = COMMA
                               /\ \A k \in i..(e - 1) : r[k] # COMMA
                               /\ v = StripQuote(Slice(r, i + 1, e - 1))
          [] n = 6 -> v = r
\* the values a tier can yield: an attribute or a piece of the string form
Pieces(r) == {Slice(r, a, b) : a \in 1..(Len(r) + 1), b \in 0..Len(r)}
TierValues(response) ==
    {response.output, response.dataOutput}
    \cup Pieces(response.repr) \cup {StripQuote(p) : p \in Pieces(response.repr)}
Extracts == Applied("extract_content") /\ "isDict" \notin DOMAIN arg

\* C24 as stated: extract_content tries its sources in a fixed order and the
\* first that applies wins: a direct output attribute, else nested
\* data.output, else the pattern output='...' in the string form, else the
\* pattern output=..., else the text after the first output= up to the next
\* comma or the end, else the whole string form; a lower tier is never used
\* when a higher one applies.
C24_FirstTierThatAppliesWins ==
    Extracts =>
        \E v \in TierValues(arg) :
            IsTierValue(arg, TierOf(arg), v) /\ result = Unescape(v)

\* C24 as amended: the first source that applies wins when what it holds is
\* a string; when the output attribute or data.output holds a value that is
\* not a string, the except handler returns the whole string form as it is.
C24_FirstTierWinsWhenItHoldsAString ==
    Extracts =>
        \E v \in TierValues(arg) :
            /\ IsTierValue(arg, TierOf(arg), v)
            /\ result = IF v = NonStr THEN arg.repr ELSE Unescape(v)

\* the attribute and data.output both hold text and the attribute won
C24_Witness ==
    /\ Extracts
    /\ arg.hasOutput /\ arg.hasData /\ arg.dataHasOutput
    /\ arg.output # NonStr /\ arg.output # arg.dataOutput
    /\ result = Unescape(arg.output)

ExtractsEither == Applied("extract_content") \/ Applied("extract_content_ls")

\* C25 as stated: whichever tier produced it, the last-resort fallback
\* included, the string extract_content returns has no backslash-n and no
\* backslash-t pair left in it.
C25_NoEscapePairInResult ==
    ExtractsEither => NoEscapes(result)

\* C25 as amended: the string extract_content returns has no backslash-n and
\* no backslash-t pair left in it, whichever tier produced it, when the value
\* picked is a string; when the attribute picked is not a string the string
\* form is returned with its pairs as they are.
C25_NoEscapePairUnlessExcept ==
    ExtractsEither =>
        IF NonStrChosen(arg) THEN result = arg.repr ELSE NoEscapes(result)

\* the whole string form was the source, had a pair, and lost it
C25_Witness ==
    /\ Applied("extract_content")
    /\ "isDict" \notin DOMAIN arg
    /\ TierOf(arg) = 6
    /\ ~NoEscapes(arg.repr)
    /\ NoEscapes(result)
    /\ \E i \in 1..Len(result) : result[i] = LF

\* the number of line ends of a text
RECURSIVE CountLF(_)
CountLF(s) ==
    IF s = <<>> THEN 0 ELSE (IF Head(s) = LF THEN 1 ELSE 0) + CountLF(Tail(s))
\* the bullet rule as the claim words it: a marker at the start of a line,
\* with the blanks and tabs after it if any, becomes the bullet and a blank;
\* every other character stays
RECURSIVE MarkersRewritten(_, _)
MarkersRewritten(s, i) ==
    IF i > Len(s) THEN <<>>
    ELSE IF (i = 1 \/ s[i - 1] = LF) /\ s[i] \in BulletMarkers
         THEN <<BULLET, " ">> \o MarkersRewritten(s, RunEnd(s, i + 1, {" ", TAB}) + 1)
         ELSE <<s[i]>> \o MarkersRewritten(s, i + 1)

\* C26: the normalizer rewrites every line-leading -, * or bullet marker to
\* the bullet and a blank, whether or not whitespace follows the marker,
\* changes nothing else on that line or the following lines, and leaves the
\* number of lines as it was.
C26_EveryLeadingMarkerRewritten ==
    Applied("unify_bullets") =>
        /\ result = MarkersRewritten(arg, 1)
        /\ CountLF(result) = CountLF(arg)

\* C26, the part about lines alone: bullet unification leaves the number of
\* lines as it was.
C26_LineCountKept ==
    Applied("unify_bullets") => CountLF(result) = CountLF(arg)

\* the four rules of lines 299-310 by name, and their application in an order
Rules == {"strip", "bullets", "bold", "collapse"}
ApplyRule(r, s) ==
    CASE r = "strip" -> StripDummy(StripProcessing(s, 1), 1)
      [] r = "bullets" -> UnifyBullets(s, 1)
      [] r = "bold" -> RewriteBold(s, 1)
      [] r = "collapse" -> CollapseNewlines(s, 1)
RECURSIVE ApplyOrder(_, _)
ApplyOrder(o, s) ==
    IF o = <<>> THEN s ELSE ApplyOrder(Tail(o), ApplyRule(Head(o), s))
Orders == {o \in [1..4 -> Rules] : \A i, j \in 1..4 : o[i] = o[j] => i = j}
Position(o, r) == CHOOSE i \in 1..4 : o[i] = r
BulletsBeforeBold == {o \in Orders : Position(o, "bullets") < Position(o, "bold")}
StrippingFirst == {o \in Orders : o[1] = "strip"}
NoTripleNewline(s) ==
    \A i \in 1..Len(s) - 2 : ~(s[i] = LF /\ s[i + 1] = LF /\ s[i + 2] = LF)

HasImageWord(prompt) ==
    \E i \in 1..Len(prompt) :
        Lower(prompt[i]) \in {"image", "picture", "photo", "generate", "create", "draw"}

\* C28: branch selection uses the feature field first and the keyword scan
\* only when no feature is given: a request with feature summary, quiz or
\* translation takes that branch even if its prompt holds one of the six
\* words, and a request without a feature takes the image branch exactly when
\* its lowercased prompt holds one of them.
C28_FeatureBeforeKeywordScan ==
    Applied("select_branch") /\ arg.aixplain_available /\ arg.gemini_model
                             /\ arg.stable_diffusion_model =>
        LET feature == arg.request.feature
        IN  /\ feature \in {<<"summary">>, <<"quiz">>, <<"translation">>}
                => result.branch = feature[1]
            /\ feature = Missing
                => (result.branch = "image" <=> HasImageWord(arg.request.prompt))

\* C28, the main loop alone and the image branch alone: a request with a
\* feature of summary, quiz or translation does not take the image branch.
C28_MainLoopFeatureIsNotImage ==
    Applied("select_branch") /\ arg.loop = "main"
        /\ arg.request.feature \in {<<"summary">>, <<"quiz">>, <<"translation">>}
        => result.branch # "image"

\* the generation calls of the request handled, and what it means that a
\* prompt was the one used for generation and recorded in the history
GenerationCalls == {i \in 1..Len(calls) : calls[i].tool = "generation"}
UsedAndRecorded(x) ==
    /\ GenerationCalls # {}
    /\ \A i \in GenerationCalls :
          calls[i].query \in {ImagePrompt(x), TextPrompt(<<"English">>, x)}
    /\ Len(conversation_history) = 1
    /\ conversation_history[1].user = x
\* the request got a response that reports an error
AnsweredWithError ==
    /\ stdout # <<>>
    /\ EndsWithSentinel(stdout[Len(stdout)])
    /\ stdout[Len(stdout)][1] \in {VOICE_ERROR, SORRY}

\* C29 as stated: for a voice request with a recording the transcription
\* call runs before any generation call; on success the prompt used for
\* generation and recorded in the history is the marker followed by the
\* transcribed text; when transcription fails the original prompt is used
\* unchanged if one was supplied, and otherwise the request ends at once with
\* an error response and no generation call.
C29_TranscribedTextReplacesPrompt ==
    Applied("voice_request") =>
        LET prompt == Get(arg.line.prompt, <<>>)
            transcribed == arg.o1.resp.output
        IN  /\ calls # <<>> /\ calls[1].tool = "speech-to-text"
            /\ \A i \in GenerationCalls : i > 1
            /\ ~arg.o1.raises => UsedAndRecorded(<<VOICE_MARKER>> \o transcribed)
            /\ arg.o1.raises /\ prompt # <<>> => UsedAndRecorded(prompt)
            /\ arg.o1.raises /\ prompt = <<>> =>
                  GenerationCalls = {} /\ AnsweredWithError

\* C29 as amended: as stated, except that when the transcription returns an
\* empty text the prompt used and recorded is the marker followed by the
\* original prompt.
C29_TranscribedTextOrPromptAfterMarker ==
    Applied("voice_request") =>
        LET prompt == Get(arg.line.prompt, <<>>)
            transcribed == arg.o1.resp.output
        IN  /\ calls # <<>> /\ calls[1].tool = "speech-to-text"
            /\ \A i \in GenerationCalls : i > 1
            /\ ~arg.o1.raises =>
                  UsedAndRecorded(<<VOICE_MARKER>>
                                  \o (IF transcribed = <<>> THEN prompt ELSE transcribed))
            /\ arg.o1.raises /\ prompt # <<>> => UsedAndRecorded(prompt)
            /\ arg.o1.raises /\ prompt = <<>> =>
                  GenerationCalls = {} /\ AnsweredWithError

\* a recording was transcribed, and the text took the place of the prompt
C29_Witness ==
    /\ Applied("voice_request")
    /\ arg.line.prompt = PromptPlain
    /\ ~arg.o1.raises /\ arg.o1.resp.output = <<"hello">>
    /\ Len(calls) = 2
    /\ calls[1].tool = "speech-to-text" /\ calls[2].tool = "generation"
    /\ conversation_history[1].user = <<VOICE_MARKER, "hello">>

(***************************************************************************)
(* The history over a restart of basic_agent.py.                           *)
(***************************************************************************)
\* the save of line 347, as the log of saves has it once the process ended
FinalFlush == saves[Len(saves)]
\* a process starts after one that ended at end of stream with a final save
\* that wrote its file
StartsAfterFlush ==
    /\ pc = "start" /\ pc' = "read"
    /\ saves # <<>>
    /\ FinalFlush.site = "shutdown" /\ FinalFlush.outcome = "ok"
IsPrefixOf(xs, ys) == Len(xs) <= Len(ys) /\ SubSeq(ys, 1, Len(xs)) = xs

\* C30: the history survives a restart.  After a run that ended at end of
\* stream with a successful final flush, the next start loads exactly the
\* turns the run held in memory when it ended, in the same order; and while a
\* process runs, every turn appended earlier stays in place and unchanged.
C30_HistorySurvivesRestart ==
    [][/\ StartsAfterFlush => conversation_history' = FinalFlush.data
       /\ TeacherAnswers => IsPrefixOf(conversation_history, conversation_history')
      ]_vars

\* a second process has loaded the turn the first one appended, a turn whose
\* text json.dump had to escape
C30_Witness ==
    /\ script = "teacher" /\ pc = "read"
    /\ Shutdowns = 1 /\ FinalFlush.outcome = "ok"
    /\ conversation_history = FinalFlush.data
    /\ Len(conversation_history) > 0
    /\ \E i \in 1..Len(conversation_history) :
          \E j \in 1..Len(conversation_history[i].assistant) :
              conversation_history[i].assistant[j] = BULLET

====
